---- MODULE Spec2Model ----
(***************************************************************************)
(* Inventory movement engine and shipment lifecycle of backend/main.py:    *)
(* the medicines / medical_devices tables, the shipment tables and the     *)
(* movement-record tables, with one action per request handler.            *)
(*                                                                         *)
(* The two stock tables (medicines, medical_devices) are kept in one set   *)
(* of rows tagged with `kind`; every query of a handler reads one table    *)
(* and is modelled by a filter on that tag.  A handler runs in one         *)
(* database session: a query inside the handler sees the rows the handler  *)
(* has added or changed so far, commit publishes all of it and rollback    *)
(* none of it.  Query.first() without ORDER BY returns any matching row.   *)
(***************************************************************************)
EXTENDS Integers, Sequences, FiniteSets, TLC

\* ---- bounds of the model ----
MaxQty == 1          \* largest quantity of a request line; initial stock
MaxLines == 2        \* longest list of lines in one request
MaxOps == 3          \* requests in one history, all handlers
MaxShipOps == 4      \* requests in one history, shipment handlers

\* ---- universe of identifiers ----
None == "None"                  \* a NULL text column or an absent text field
Null == {}                      \* a NULL / absent numeric or timestamp value
Some(x) == {x}                  \* a present one
Get(o) == CHOOSE x \in o : TRUE
Branches == {"b1", "b2"}
Names == {"A", "B"}
Reasons == {"r1", "r2"}
MEDICINE == "medicine"
MEDICAL_DEVICE == "medical_device"
PENDING == "pending"
ACCEPTED == "accepted"
REJECTED == "rejected"
Statuses == {PENDING, ACCEPTED, REJECTED}
Quantities == -1..MaxQty
Positive == 1..MaxQty

VARIABLES
    stock,              \* rows of medicines and medical_devices
    next_id,            \* the primary key uuid4() hands to the next stock row
    shipments,          \* sequence of shipment rows (index = shipment id)
    shipment_items,     \* sequence of shipment_items rows
    notifications,      \* sequence of notification rows
    transfers,          \* sequence of transfer rows
    arrivals,           \* sequence of arrival rows
    device_arrivals,    \* sequence of device_arrival rows
    dispensing_records, \* sequence of dispensing_record rows (index = id)
    dispensing_items,   \* sequence of dispensing_item rows
    now,                \* datetime.utcnow(), advanced when it is read
    ops,                \* number of requests the history may still hold
    request,            \* the request handled last
    response,           \* HTTP status code of the response to it
    effects,            \* per shipment: how often its stock moves were committed
    resets,             \* per shipment: how often an override made it pending
    sessions            \* per client: the request whose transaction is open

vars == <<stock, next_id, shipments, shipment_items, notifications,
          transfers, arrivals, device_arrivals, dispensing_records,
          dispensing_items, now, ops, request, response, effects, resets,
          sessions>>

\* groups of tables a handler leaves alone
shipmentTables == <<shipments, shipment_items, notifications, now, effects,
                    resets>>
arrivalTables == <<arrivals, device_arrivals>>
dispensingTables == <<dispensing_records, dispensing_items>>

\* ---- rows and queries ----
StockRow(id, kind, name, cat, pp, sp, q, b) ==
    [id |-> id, kind |-> kind, name |-> name, category_id |-> cat,
     purchase_price |-> pp, sell_price |-> sp, quantity |-> q, branch_id |-> b]

\* (a slip: the filter on branch_id is missing)
MainRows_any_location(tbl, kind, id) ==
    {r \in tbl : r.kind = kind /\ r.id = id}

\* db.query(T).filter(T.id == id, T.branch_id.is_(None))
MainRows(tbl, kind, id) ==
    {r \in tbl : r.kind = kind /\ r.id = id /\ r.branch_id = None}

\* (a slip: the lookup passes over the rows that hold nothing)
BranchRows_in_stock(tbl, kind, name, b) ==
    {r \in tbl : r.kind = kind /\ r.name = name /\ r.branch_id = b
                   /\ r.quantity > 0}

\* db.query(T).filter(T.name == name, T.branch_id == b)
BranchRows(tbl, kind, name, b) ==
    {r \in tbl : r.kind = kind /\ r.name = name /\ r.branch_id = b}

\* the rows a query inside a request finds: the committed rows with the
\* changes the request has made to them and the rows it has added so far
\* (the session is created in database.py)
SessionRows(tbl) == tbl

\* (a slip: row.quantity = d)
AddQty_assign(tbl, r, d) ==
    (tbl \ {r}) \cup {[r EXCEPT !.quantity = d]}

\* row.quantity += d
AddQty(tbl, r, d) ==
    (tbl \ {r}) \cup {[r EXCEPT !.quantity = r.quantity + d]}

\* the lists of at most n lines over a set of lines
SeqsUpTo(S, n) == UNION {[1..k -> S] : k \in 0..n}

\* the clients that may have a request in progress at the same time
Clients == {1, 2}
Idle == [pc |-> "idle"]

\* a request handled from its first query to its commit with no other
\* request in between
Tick == ops > 0 /\ ops' = ops - 1 /\ UNCHANGED sessions

\* ---- POST /transfers ----
\* (a slip: the branch's row is looked up by the medicine's id, not its name)
RECURSIVE TransferLines_by_id(_, _, _)
TransferLines_by_id(s, batch, i) ==
    IF i > Len(batch) THEN {s}
    ELSE
      LET t == batch[i]
          mains == MainRows(s.stock, MEDICINE, t.medicine_id)
      IN  IF mains = {} \/ (\E m \in mains : m.quantity < t.quantity)
          THEN {[s EXCEPT !.ok = FALSE]}
          ELSE
            LET main == CHOOSE m \in mains : TRUE
                st1 == AddQty(s.stock, main, -t.quantity)
                found == {r \in SessionRows(st1) :
                            r.kind = MEDICINE /\ r.id = t.medicine_id
                              /\ r.branch_id = t.to_branch_id}
                rec == [medicine_id |-> t.medicine_id,
                        medicine_name |-> t.medicine_name,
                        quantity |-> t.quantity,
                        from_branch_id |-> IF t.from_branch_id = None
                                           THEN "main" ELSE t.from_branch_id,
                        to_branch_id |-> t.to_branch_id]
                after(st2, nid) ==
                    [s EXCEPT !.stock = st2, !.next_id = nid,
                              !.transfers = Append(s.transfers, rec)]
            IN  IF found # {}
                THEN UNION {TransferLines_by_id(after(AddQty(st1, b, t.quantity),
                                                      s.next_id),
                                                batch, i + 1) : b \in found}
                ELSE TransferLines_by_id(
                       after(st1 \cup {StockRow(s.next_id, MEDICINE, t.medicine_name,
                                                main.category_id, main.purchase_price,
                                                main.sell_price, t.quantity,
                                                t.to_branch_id)},
                             s.next_id + 1),
                       batch, i + 1)

\* the loop body for the lines i.. of the batch on the session state
\* s = [ok, stock, next_id, transfers]; the set of possible results
RECURSIVE TransferLines(_, _, _)
TransferLines(s, batch, i) ==
    IF i > Len(batch) THEN {s}
    ELSE
      LET t == batch[i]
          mains == MainRows(s.stock, MEDICINE, t.medicine_id)
      IN  IF mains = {} \/ (\E m \in mains : m.quantity < t.quantity)
          THEN {[s EXCEPT !.ok = FALSE]}
          ELSE
            LET main == CHOOSE m \in mains : TRUE
                st1 == AddQty(s.stock, main, -t.quantity)
                found == BranchRows(SessionRows(st1), MEDICINE, t.medicine_name,
                                    t.to_branch_id)
                rec == [medicine_id |-> t.medicine_id,
                        medicine_name |-> t.medicine_name,
                        quantity |-> t.quantity,
                        from_branch_id |-> IF t.from_branch_id = None
                                           THEN "main" ELSE t.from_branch_id,
                        to_branch_id |-> t.to_branch_id]
                after(st2, nid) ==
                    [s EXCEPT !.stock = st2, !.next_id = nid,
                              !.transfers = Append(s.transfers, rec)]
            IN  IF found # {}
                THEN UNION {TransferLines(after(AddQty(st1, b, t.quantity), s.next_id),
                                          batch, i + 1) : b \in found}
                ELSE TransferLines(
                       after(st1 \cup {StockRow(s.next_id, MEDICINE, t.medicine_name,
                                                main.category_id, main.purchase_price,
                                                main.sell_price, t.quantity,
                                                t.to_branch_id)},
                             s.next_id + 1),
                       batch, i + 1)

\* (a slip: the rollback of line 759 is missing, the session is committed)
create_transfers_partial(batch) ==
    /\ Tick
    /\ request' = [op |-> "create_transfers", id |-> 0, batch |-> batch]
    /\ \E r \in TransferLines([ok |-> TRUE, stock |-> stock, next_id |-> next_id,
                               transfers |-> transfers], batch, 1) :
         /\ stock' = r.stock
         /\ next_id' = r.next_id
         /\ transfers' = r.transfers
         /\ response' = IF r.ok THEN 200 ELSE 400
    /\ UNCHANGED <<shipmentTables, arrivalTables, dispensingTables>>

\* (a slip: the transfer records are committed, the stock rows are not)
create_transfers_records_only(batch) ==
    /\ Tick
    /\ request' = [op |-> "create_transfers", id |-> 0, batch |-> batch]
    /\ \E r \in TransferLines([ok |-> TRUE, stock |-> stock, next_id |-> next_id,
                               transfers |-> transfers], batch, 1) :
         IF r.ok
         THEN /\ transfers' = r.transfers
              /\ response' = 200
              /\ UNCHANGED <<stock, next_id>>
         ELSE /\ UNCHANGED <<stock, next_id, transfers>>
              /\ response' = 400
    /\ UNCHANGED <<shipmentTables, arrivalTables, dispensingTables>>

create_transfers(batch) ==
    /\ Tick
    /\ request' = [op |-> "create_transfers", id |-> 0, batch |-> batch]
    /\ \E r \in TransferLines([ok |-> TRUE, stock |-> stock, next_id |-> next_id,
                               transfers |-> transfers], batch, 1) :
         IF r.ok
         THEN /\ stock' = r.stock
              /\ next_id' = r.next_id
              /\ transfers' = r.transfers
              /\ response' = 200
         ELSE /\ UNCHANGED <<stock, next_id, transfers>>
              /\ response' = 400
    /\ UNCHANGED <<shipmentTables, arrivalTables, dispensingTables>>

\* ---- POST /shipments ----
\* one of the two loops over the request's lines (medicines, medical_devices)
\* on the session state s = [ok, items]; the warehouse is only read
RECURSIVE ShipmentLines(_, _, _, _, _)
ShipmentLines(s, sid, kind, lines, i) ==
    IF i > Len(lines) \/ ~s.ok THEN s
    ELSE
      LET l == lines[i]
          mains == MainRows(stock, kind, l.id)
      IN  IF mains = {} \/ (\E m \in mains : m.quantity < l.quantity)
          THEN [s EXCEPT !.ok = FALSE]
          ELSE ShipmentLines(
                 [s EXCEPT !.items = Append(s.items,
                      [shipment_id |-> sid, item_type |-> kind, item_id |-> l.id,
                       item_name |-> (CHOOSE m \in mains : TRUE).name,
                       quantity |-> l.quantity])],
                 sid, kind, lines, i + 1)

\* the warehouse after taking every new item's quantity out of it
RECURSIVE Reserve(_, _, _)
Reserve(tbl, items, i) ==
    IF i > Len(items) THEN tbl
    ELSE LET mains == MainRows(tbl, items[i].item_type, items[i].item_id)
         IN  Reserve(IF mains = {} THEN tbl
                     ELSE AddQty(tbl, CHOOSE m \in mains : TRUE, -items[i].quantity),
                     items, i + 1)

\* (a slip: the warehouse is decremented at creation time)
create_shipment_reserving(to, meds, devs) ==
    /\ Tick
    /\ request' = [op |-> "create_shipment", id |-> Len(shipments) + 1,
                   to_branch_id |-> to, medicines |-> meds,
                   medical_devices |-> devs]
    /\ LET sid == Len(shipments) + 1
           s1 == ShipmentLines([ok |-> TRUE, items |-> shipment_items],
                               sid, MEDICINE, meds, 1)
           s2 == ShipmentLines(s1, sid, MEDICAL_DEVICE, devs, 1)
       IN  IF s2.ok
           THEN /\ shipments' = Append(shipments,
                      [to_branch_id |-> to, status |-> PENDING,
                       rejection_reason |-> None, accepted_at |-> Null])
                /\ shipment_items' = s2.items
                /\ notifications' = Append(notifications,
                      [branch_id |-> to, is_read |-> 0])
                /\ effects' = Append(effects, 0)
                /\ resets' = Append(resets, 0)
                /\ stock' = Reserve(stock, s2.items, Len(shipment_items) + 1)
                /\ response' = 200
           ELSE /\ UNCHANGED <<shipments, shipment_items, notifications, effects,
                               resets, stock>>
                /\ response' = 400
    /\ UNCHANGED <<next_id, transfers, now, arrivalTables, dispensingTables>>

\* (a slip: a failed creation commits the session instead of rolling back)
create_shipment_no_rollback(to, meds, devs) ==
    /\ Tick
    /\ request' = [op |-> "create_shipment", id |-> Len(shipments) + 1,
                   to_branch_id |-> to, medicines |-> meds,
                   medical_devices |-> devs]
    /\ LET sid == Len(shipments) + 1
           s1 == ShipmentLines([ok |-> TRUE, items |-> shipment_items],
                               sid, MEDICINE, meds, 1)
           s2 == ShipmentLines(s1, sid, MEDICAL_DEVICE, devs, 1)
       IN  /\ shipments' = Append(shipments,
                  [to_branch_id |-> to, status |-> PENDING,
                   rejection_reason |-> None, accepted_at |-> Null])
           /\ shipment_items' = s2.items
           /\ effects' = Append(effects, 0)
           /\ resets' = Append(resets, 0)
           /\ IF s2.ok
              THEN /\ notifications' = Append(notifications,
                         [branch_id |-> to, is_read |-> 0])
                   /\ response' = 200
              ELSE /\ UNCHANGED notifications
                   /\ response' = 400
    /\ UNCHANGED <<stock, next_id, transfers, now, arrivalTables, dispensingTables>>

\* (a slip: the notification of lines 881-888 is missing)
create_shipment_silent(to, meds, devs) ==
    /\ Tick
    /\ request' = [op |-> "create_shipment", id |-> Len(shipments) + 1,
                   to_branch_id |-> to, medicines |-> meds,
                   medical_devices |-> devs]
    /\ LET sid == Len(shipments) + 1
           s1 == ShipmentLines([ok |-> TRUE, items |-> shipment_items],
                               sid, MEDICINE, meds, 1)
           s2 == ShipmentLines(s1, sid, MEDICAL_DEVICE, devs, 1)
       IN  IF s2.ok
           THEN /\ shipments' = Append(shipments,
                      [to_branch_id |-> to, status |-> PENDING,
                       rejection_reason |-> None, accepted_at |-> Null])
                /\ shipment_items' = s2.items
                /\ UNCHANGED notifications
                /\ effects' = Append(effects, 0)
                /\ resets' = Append(resets, 0)
                /\ response' = 200
           ELSE /\ UNCHANGED <<shipments, shipment_items, notifications, effects,
                               resets>>
                /\ response' = 400
    /\ UNCHANGED <<stock, next_id, transfers, now, arrivalTables, dispensingTables>>

create_shipment(to, meds, devs) ==
    /\ Tick
    /\ request' = [op |-> "create_shipment", id |-> Len(shipments) + 1,
                   to_branch_id |-> to, medicines |-> meds,
                   medical_devices |-> devs]
    /\ LET sid == Len(shipments) + 1
           s1 == ShipmentLines([ok |-> TRUE, items |-> shipment_items],
                               sid, MEDICINE, meds, 1)
           s2 == ShipmentLines(s1, sid, MEDICAL_DEVICE, devs, 1)
       IN  IF s2.ok
           THEN /\ shipments' = Append(shipments,
                      [to_branch_id |-> to, status |-> PENDING,
                       rejection_reason |-> None, accepted_at |-> Null])
                /\ shipment_items' = s2.items
                /\ notifications' = Append(notifications,
                      [branch_id |-> to, is_read |-> 0])
                /\ effects' = Append(effects, 0)
                /\ resets' = Append(resets, 0)
                /\ response' = 200
           ELSE /\ UNCHANGED <<shipments, shipment_items, notifications, effects,
                               resets>>
                /\ response' = 400
    /\ UNCHANGED <<stock, next_id, transfers, now, arrivalTables, dispensingTables>>

\* ---- POST /shipments/{shipment_id}/accept ----
\* the loop body for the items i.. of the shipment on the session state
\* s = [stock, next_id]; the set of possible results
\* (a slip: a branch copy that is found also takes the warehouse row's prices)
RECURSIVE AcceptItems_refreshing(_, _, _, _)
AcceptItems_refreshing(s, to, items, i) ==
    IF i > Len(items) THEN {s}
    ELSE
      LET it == items[i]
          kind == IF it.item_type = MEDICINE THEN MEDICINE ELSE MEDICAL_DEVICE
          mains == MainRows(s.stock, kind, it.item_id)
          st1 == IF mains # {}
                 THEN AddQty(s.stock, CHOOSE m \in mains : TRUE, -it.quantity)
                 ELSE s.stock
          main1 == MainRows(st1, kind, it.item_id)
          found == BranchRows(SessionRows(st1), kind, it.item_name, to)
          price(b) == IF main1 # {} THEN (CHOOSE x \in main1 : TRUE).purchase_price
                      ELSE b.purchase_price
      IN  IF found # {}
          THEN UNION {AcceptItems_refreshing(
                        [s EXCEPT !.stock =
                           (st1 \ {b}) \cup
                           {[b EXCEPT !.quantity = b.quantity + it.quantity,
                                      !.purchase_price = price(b)]}],
                        to, items, i + 1) : b \in found}
          ELSE AcceptItems_refreshing(
                 [stock |-> st1 \cup
                     {IF main1 # {}
                      THEN LET m == CHOOSE x \in main1 : TRUE
                           IN  StockRow(s.next_id, kind, it.item_name, m.category_id,
                                        m.purchase_price, m.sell_price, it.quantity, to)
                      ELSE StockRow(s.next_id, kind, it.item_name, None, 0, 0,
                                    it.quantity, to)},
                  next_id |-> s.next_id + 1],
                 to, items, i + 1)

\* (a slip: the branch's copy is looked up and created under the warehouse
\* row's current name)
RECURSIVE AcceptItems_current_name(_, _, _, _)
AcceptItems_current_name(s, to, items, i) ==
    IF i > Len(items) THEN {s}
    ELSE
      LET it == items[i]
          kind == IF it.item_type = MEDICINE THEN MEDICINE ELSE MEDICAL_DEVICE
          mains == MainRows(s.stock, kind, it.item_id)
          st1 == IF mains # {}
                 THEN AddQty(s.stock, CHOOSE m \in mains : TRUE, -it.quantity)
                 ELSE s.stock
          main1 == MainRows(st1, kind, it.item_id)
          name == IF main1 # {} THEN (CHOOSE x \in main1 : TRUE).name
                  ELSE it.item_name
          found == BranchRows(SessionRows(st1), kind, name, to)
      IN  IF found # {}
          THEN UNION {AcceptItems_current_name(
                        [s EXCEPT !.stock = AddQty(st1, b, it.quantity)],
                        to, items, i + 1) : b \in found}
          ELSE AcceptItems_current_name(
                 [stock |-> st1 \cup
                     {IF main1 # {}
                      THEN LET m == CHOOSE x \in main1 : TRUE
                           IN  StockRow(s.next_id, kind, name, m.category_id,
                                        m.purchase_price, m.sell_price, it.quantity, to)
                      ELSE StockRow(s.next_id, kind, name, None, 0, 0,
                                    it.quantity, to)},
                  next_id |-> s.next_id + 1],
                 to, items, i + 1)

RECURSIVE AcceptItems(_, _, _, _)
AcceptItems(s, to, items, i) ==
    IF i > Len(items) THEN {s}
    ELSE
      LET it == items[i]
          kind == IF it.item_type = MEDICINE THEN MEDICINE ELSE MEDICAL_DEVICE
          mains == MainRows(s.stock, kind, it.item_id)
          st1 == IF mains # {}
                 THEN AddQty(s.stock, CHOOSE m \in mains : TRUE, -it.quantity)
                 ELSE s.stock
          main1 == MainRows(st1, kind, it.item_id)
          found == BranchRows(SessionRows(st1), kind, it.item_name, to)
      IN  IF found # {}
          THEN UNION {AcceptItems([s EXCEPT !.stock = AddQty(st1, b, it.quantity)],
                                  to, items, i + 1) : b \in found}
          ELSE AcceptItems(
                 [stock |-> st1 \cup
                     {IF main1 # {}
                      THEN LET m == CHOOSE x \in main1 : TRUE
                           IN  StockRow(s.next_id, kind, it.item_name, m.category_id,
                                        m.purchase_price, m.sell_price, it.quantity, to)
                      ELSE StockRow(s.next_id, kind, it.item_name, None, 0, 0,
                                    it.quantity, to)},
                  next_id |-> s.next_id + 1],
                 to, items, i + 1)

ItemsOf(sid) == SelectSeq(shipment_items, LAMBDA it : it.shipment_id = sid)

\* the stock moves of every item of the shipment, in the session
AcceptMoves(sid) ==
    /\ \E r \in AcceptItems([stock |-> stock, next_id |-> next_id],
                            shipments[sid].to_branch_id, ItemsOf(sid), 1) :
         /\ stock' = r.stock
         /\ next_id' = r.next_id
    /\ effects' = [effects EXCEPT ![sid] = @ + 1]

\* the commit of an acceptance: the stock moves, the status and accepted_at
\* in one transaction
AcceptCommit(sid) ==
    /\ AcceptMoves(sid)
    /\ shipments' = [shipments EXCEPT ![sid].status = ACCEPTED,
                                      ![sid].accepted_at = Some(now)]
    /\ now' = now + 1
    /\ response' = 200

\* (a slip: the status check of line 901 is missing)
accept_shipment_unguarded(sid) ==
    /\ Tick
    /\ request' = [op |-> "accept_shipment", id |-> sid]
    /\ IF sid \notin DOMAIN shipments
       THEN /\ response' = 404
            /\ UNCHANGED <<stock, next_id, shipments, now, effects>>
       ELSE AcceptCommit(sid)
    /\ UNCHANGED <<shipment_items, notifications, transfers, arrivalTables,
                   dispensingTables, resets>>

\* (a slip: the status assignment of line 990 is missing)
accept_shipment_keeps_status(sid) ==
    /\ Tick
    /\ request' = [op |-> "accept_shipment", id |-> sid]
    /\ IF sid \notin DOMAIN shipments
       THEN /\ response' = 404
            /\ UNCHANGED <<stock, next_id, shipments, now, effects>>
       ELSE IF shipments[sid].status # PENDING
       THEN /\ response' = 409
            /\ UNCHANGED <<stock, next_id, shipments, now, effects>>
       ELSE /\ AcceptMoves(sid)
            /\ shipments' = [shipments EXCEPT ![sid].accepted_at = Some(now)]
            /\ now' = now + 1
            /\ response' = 200
    /\ UNCHANGED <<shipment_items, notifications, transfers, arrivalTables,
                   dispensingTables, resets>>

accept_shipment(sid) ==
    /\ Tick
    /\ request' = [op |-> "accept_shipment", id |-> sid]
    /\ IF sid \notin DOMAIN shipments
       THEN /\ response' = 404
            /\ UNCHANGED <<stock, next_id, shipments, now, effects>>
       ELSE IF shipments[sid].status # PENDING
       THEN /\ response' = 409
            /\ UNCHANGED <<stock, next_id, shipments, now, effects>>
       ELSE AcceptCommit(sid)
    /\ UNCHANGED <<shipment_items, notifications, transfers, arrivalTables,
                   dispensingTables, resets>>

\* ---- POST /shipments/{shipment_id}/reject ----
\* (a slip: line 1014 writes a fourth status)
reject_shipment_cancelling(sid, reason) ==
    /\ Tick
    /\ request' = [op |-> "reject_shipment", id |-> sid, reason |-> reason]
    /\ IF sid \notin DOMAIN shipments
       THEN /\ response' = 404
            /\ UNCHANGED shipments
       ELSE /\ shipments' = [shipments EXCEPT ![sid].status = "cancelled",
                                              ![sid].rejection_reason = reason]
            /\ response' = 200
    /\ UNCHANGED <<stock, next_id, shipment_items, notifications, transfers,
                   now, effects, resets, arrivalTables, dispensingTables>>

\* (a slip: the status assignment of line 1014 is missing)
reject_shipment_keeps_status(sid, reason) ==
    /\ Tick
    /\ request' = [op |-> "reject_shipment", id |-> sid, reason |-> reason]
    /\ IF sid \notin DOMAIN shipments
       THEN /\ response' = 404
            /\ UNCHANGED shipments
       ELSE /\ shipments' = [shipments EXCEPT ![sid].rejection_reason = reason]
            /\ response' = 200
    /\ UNCHANGED <<stock, next_id, shipment_items, notifications, transfers,
                   now, effects, resets, arrivalTables, dispensingTables>>

\* (a slip: the rejection gives the items' quantities back to the warehouse)
reject_shipment_releasing(sid, reason) ==
    /\ Tick
    /\ request' = [op |-> "reject_shipment", id |-> sid, reason |-> reason]
    /\ IF sid \notin DOMAIN shipments
       THEN /\ response' = 404
            /\ UNCHANGED <<shipments, stock>>
       ELSE /\ shipments' = [shipments EXCEPT ![sid].status = REJECTED,
                                              ![sid].rejection_reason = reason]
            /\ LET items == ItemsOf(sid)
                   main == IF items = <<>> THEN {}
                           ELSE MainRows(stock, items[1].item_type,
                                         items[1].item_id)
               IN  stock' = IF main = {} THEN stock
                            ELSE AddQty(stock, CHOOSE r \in main : TRUE,
                                        items[1].quantity)
            /\ response' = 200
    /\ UNCHANGED <<next_id, shipment_items, notifications, transfers,
                   now, effects, resets, arrivalTables, dispensingTables>>

reject_shipment(sid, reason) ==
    /\ Tick
    /\ request' = [op |-> "reject_shipment", id |-> sid, reason |-> reason]
    /\ IF sid \notin DOMAIN shipments
       THEN /\ response' = 404
            /\ UNCHANGED shipments
       ELSE /\ shipments' = [shipments EXCEPT ![sid].status = REJECTED,
                                              ![sid].rejection_reason = reason]
            /\ response' = 200
    /\ UNCHANGED <<stock, next_id, shipment_items, notifications, transfers,
                   now, effects, resets, arrivalTables, dispensingTables>>

\* ---- PUT /shipments/{shipment_id}/status ----
\* (a slip: the override stamps accepted_at when it writes "accepted")
update_shipment_status_stamping(sid, status) ==
    /\ Tick
    /\ request' = [op |-> "update_shipment_status", id |-> sid, status |-> status]
    /\ IF sid \notin DOMAIN shipments
       THEN /\ response' = 404
            /\ UNCHANGED <<shipments, resets, now>>
       ELSE /\ shipments' = [shipments EXCEPT
                               ![sid].status = status,
                               ![sid].accepted_at = IF status = ACCEPTED
                                                    THEN Some(now) ELSE @]
            /\ now' = now + 1
            /\ resets' = [resets EXCEPT ![sid] = IF status = PENDING
                                                 THEN @ + 1 ELSE @]
            /\ response' = 200
    /\ UNCHANGED <<stock, next_id, shipment_items, notifications, transfers,
                   effects, arrivalTables, dispensingTables>>

\* (a slip: the override clears accepted_at and rejection_reason when the
\* status it writes is not the one they belong to)
update_shipment_status_clearing(sid, status) ==
    /\ Tick
    /\ request' = [op |-> "update_shipment_status", id |-> sid, status |-> status]
    /\ IF sid \notin DOMAIN shipments
       THEN /\ response' = 404
            /\ UNCHANGED <<shipments, resets>>
       ELSE /\ shipments' = [shipments EXCEPT
                               ![sid].status = status,
                               ![sid].accepted_at = IF status = ACCEPTED
                                                    THEN @ ELSE Null,
                               ![sid].rejection_reason = IF status = REJECTED
                                                         THEN @ ELSE None]
            /\ resets' = [resets EXCEPT ![sid] = IF status = PENDING
                                                 THEN @ + 1 ELSE @]
            /\ response' = 200
    /\ UNCHANGED <<stock, next_id, shipment_items, notifications, transfers,
                   now, effects, arrivalTables, dispensingTables>>

update_shipment_status(sid, status) ==
    /\ Tick
    /\ request' = [op |-> "update_shipment_status", id |-> sid, status |-> status]
    /\ IF sid \notin DOMAIN shipments
       THEN /\ response' = 404
            /\ UNCHANGED <<shipments, resets>>
       ELSE /\ shipments' = [shipments EXCEPT ![sid].status = status]
            /\ resets' = [resets EXCEPT ![sid] = IF status = PENDING
                                                 THEN @ + 1 ELSE @]
            /\ response' = 200
    /\ UNCHANGED <<stock, next_id, shipment_items, notifications, transfers,
                   now, effects, arrivalTables, dispensingTables>>

\* ---- PUT /medicines/{medicine_id} ----
\* the categories there are for medicines; a row an acceptance created
\* without a warehouse row has category None, which is none of them
MedicineCategories == {"c1", "c8"}

\* the request sets the name and leaves every other field unset
update_medicine(id, name) ==
    /\ Tick
    /\ request' = [op |-> "update_medicine", id |-> id, name |-> name]
    /\ LET rows == {r \in stock : r.kind = MEDICINE /\ r.id = id}
       IN  IF rows = {}
           THEN /\ response' = 404
                /\ UNCHANGED stock
           ELSE IF \E r \in rows : r.category_id \notin MedicineCategories
           THEN /\ response' = 400
                /\ UNCHANGED stock
           ELSE /\ stock' = (stock \ rows) \cup {[r EXCEPT !.name = name] : r \in rows}
                /\ response' = 200
    /\ UNCHANGED <<next_id, shipmentTables, transfers, arrivalTables,
                   dispensingTables>>

\* ---- DELETE /medicines/{medicine_id} ----
delete_medicine(id) ==
    /\ Tick
    /\ request' = [op |-> "delete_medicine", id |-> id]
    /\ LET rows == {r \in stock : r.kind = MEDICINE /\ r.id = id}
       IN  IF rows = {}
           THEN /\ response' = 404
                /\ UNCHANGED stock
           ELSE /\ stock' = stock \ rows
                /\ response' = 200
    /\ UNCHANGED <<next_id, shipmentTables, transfers, arrivalTables,
                   dispensingTables>>

\* ---- POST /dispensing ----
Patients == {"p1"}
Employees == {"e1"}

\* the loop body for the items i.. of the request on the session state
\* s = [ok, stock, items]; a line whose type is neither table is skipped
\* (a slip: each line is compared with the quantity the row held before the
\* request, not with what the earlier lines left)
RECURSIVE DispenseItems_stale(_, _, _, _, _)
DispenseItems_stale(s, rid, branch, items, i) ==
    IF i > Len(items) \/ ~s.ok THEN s
    ELSE
      LET it == items[i]
      IN  IF it.type \notin {MEDICINE, MEDICAL_DEVICE}
          THEN DispenseItems_stale(s, rid, branch, items, i + 1)
          ELSE
            LET rows == {r \in s.stock : r.kind = it.type /\ r.id = it.id
                                          /\ r.branch_id = branch}
                before == {r \in stock : r.kind = it.type /\ r.id = it.id
                                          /\ r.branch_id = branch}
            IN  IF rows = {} \/ (\E r \in before : r.quantity < it.quantity)
                THEN [s EXCEPT !.ok = FALSE]
                ELSE DispenseItems_stale(
                       [s EXCEPT
                          !.stock = AddQty(s.stock, CHOOSE r \in rows : TRUE,
                                           -it.quantity),
                          !.items = Append(s.items,
                             [record_id |-> rid, item_type |-> it.type,
                              item_id |-> it.id, item_name |-> it.name,
                              quantity |-> it.quantity])],
                       rid, branch, items, i + 1)

\* (a slip: the filter on branch_id is missing from the lookup of the row)
RECURSIVE DispenseItems_any_location(_, _, _, _, _)
DispenseItems_any_location(s, rid, branch, items, i) ==
    IF i > Len(items) \/ ~s.ok THEN s
    ELSE
      LET it == items[i]
      IN  IF it.type \notin {MEDICINE, MEDICAL_DEVICE}
          THEN DispenseItems_any_location(s, rid, branch, items, i + 1)
          ELSE
            LET rows == {r \in s.stock : r.kind = it.type /\ r.id = it.id}
            IN  IF rows = {} \/ (\E r \in rows : r.quantity < it.quantity)
                THEN [s EXCEPT !.ok = FALSE]
                ELSE DispenseItems_any_location(
                       [s EXCEPT
                          !.stock = AddQty(s.stock, CHOOSE r \in rows : TRUE,
                                           -it.quantity),
                          !.items = Append(s.items,
                             [record_id |-> rid, item_type |-> it.type,
                              item_id |-> it.id, item_name |-> it.name,
                              quantity |-> it.quantity])],
                       rid, branch, items, i + 1)

RECURSIVE DispenseItems(_, _, _, _, _)
DispenseItems(s, rid, branch, items, i) ==
    IF i > Len(items) \/ ~s.ok THEN s
    ELSE
      LET it == items[i]
      IN  IF it.type \notin {MEDICINE, MEDICAL_DEVICE}
          THEN DispenseItems(s, rid, branch, items, i + 1)
          ELSE
            LET rows == {r \in s.stock : r.kind = it.type /\ r.id = it.id
                                          /\ r.branch_id = branch}
            IN  IF rows = {} \/ (\E r \in rows : r.quantity < it.quantity)
                THEN [s EXCEPT !.ok = FALSE]
                ELSE DispenseItems(
                       [s EXCEPT
                          !.stock = AddQty(s.stock, CHOOSE r \in rows : TRUE,
                                           -it.quantity),
                          !.items = Append(s.items,
                             [record_id |-> rid, item_type |-> it.type,
                              item_id |-> it.id, item_name |-> it.name,
                              quantity |-> it.quantity])],
                       rid, branch, items, i + 1)

\* (a slip: a failed request commits the session instead of rolling back)
create_dispensing_record_no_rollback(patient_id, employee_id, branch, items) ==
    /\ Tick
    /\ request' = [op |-> "create_dispensing_record", id |-> 0,
                   patient_id |-> patient_id, employee_id |-> employee_id,
                   branch_id |-> branch, items |-> items]
    /\ LET rid == Len(dispensing_records) + 1
           r == DispenseItems([ok |-> TRUE, stock |-> stock,
                               items |-> dispensing_items], rid, branch, items, 1)
       IN  IF patient_id \in Patients /\ employee_id \in Employees
           THEN /\ stock' = r.stock
                /\ dispensing_items' = r.items
                /\ dispensing_records' = Append(dispensing_records,
                      [patient_id |-> patient_id, employee_id |-> employee_id,
                       branch_id |-> branch])
                /\ response' = IF r.ok THEN 200 ELSE 400
           ELSE /\ UNCHANGED <<stock, dispensingTables>>
                /\ response' = 400
    /\ UNCHANGED <<next_id, shipmentTables, transfers, arrivalTables>>

create_dispensing_record(patient_id, employee_id, branch, items) ==
    /\ Tick
    /\ request' = [op |-> "create_dispensing_record", id |-> 0,
                   patient_id |-> patient_id, employee_id |-> employee_id,
                   branch_id |-> branch, items |-> items]
    /\ LET rid == Len(dispensing_records) + 1
           r == DispenseItems([ok |-> TRUE, stock |-> stock,
                               items |-> dispensing_items], rid, branch, items, 1)
       IN  IF patient_id \in Patients /\ employee_id \in Employees /\ r.ok
           THEN /\ stock' = r.stock
                /\ dispensing_items' = r.items
                /\ dispensing_records' = Append(dispensing_records,
                      [patient_id |-> patient_id, employee_id |-> employee_id,
                       branch_id |-> branch])
                /\ response' = 200
           ELSE /\ UNCHANGED <<stock, dispensingTables>>
                /\ response' = 400
    /\ UNCHANGED <<next_id, shipmentTables, transfers, arrivalTables>>

\* ---- POST /arrivals and POST /device_arrivals ----
\* the loop body for the entries i.. of the batch on the session state
\* s = [stock, log]
\* (a slip: the sell price is overwritten also when none is supplied)
RECURSIVE ArrivalLines_overwriting(_, _, _, _)
ArrivalLines_overwriting(s, kind, batch, i) ==
    IF i > Len(batch) THEN s
    ELSE
      LET a == batch[i]
          rec == [item_id |-> a.item_id, item_name |-> a.item_name,
                  quantity |-> a.quantity, purchase_price |-> a.purchase_price,
                  sell_price |-> IF a.sell_price # Null THEN Get(a.sell_price) ELSE 0]
          mains == MainRows(s.stock, kind, a.item_id)
          st1 == IF mains = {} THEN s.stock
                 ELSE LET m == CHOOSE x \in mains : TRUE
                      IN  (s.stock \ {m}) \cup
                          {[m EXCEPT !.quantity = m.quantity + a.quantity,
                                     !.purchase_price = a.purchase_price,
                                     !.sell_price = rec.sell_price]}
      IN  ArrivalLines_overwriting([stock |-> st1, log |-> Append(s.log, rec)],
                                   kind, batch, i + 1)

RECURSIVE ArrivalLines(_, _, _, _)
ArrivalLines(s, kind, batch, i) ==
    IF i > Len(batch) THEN s
    ELSE
      LET a == batch[i]
          rec == [item_id |-> a.item_id, item_name |-> a.item_name,
                  quantity |-> a.quantity, purchase_price |-> a.purchase_price,
                  sell_price |-> IF a.sell_price # Null THEN Get(a.sell_price) ELSE 0]
          mains == MainRows(s.stock, kind, a.item_id)
          st1 == IF mains = {} THEN s.stock
                 ELSE LET m == CHOOSE x \in mains : TRUE
                      IN  (s.stock \ {m}) \cup
                          {[m EXCEPT !.quantity = m.quantity + a.quantity,
                                     !.purchase_price = a.purchase_price,
                                     !.sell_price = IF a.sell_price # Null
                                                    THEN Get(a.sell_price)
                                                    ELSE m.sell_price]}
      IN  ArrivalLines([stock |-> st1, log |-> Append(s.log, rec)],
                       kind, batch, i + 1)

create_arrivals(batch) ==
    /\ Tick
    /\ request' = [op |-> "create_arrivals", id |-> 0, batch |-> batch]
    /\ LET r == ArrivalLines([stock |-> stock, log |-> arrivals], MEDICINE, batch, 1)
       IN  /\ stock' = r.stock
           /\ arrivals' = r.log
    /\ response' = 200
    /\ UNCHANGED <<next_id, shipmentTables, transfers, device_arrivals,
                   dispensingTables>>

create_device_arrivals(batch) ==
    /\ Tick
    /\ request' = [op |-> "create_device_arrivals", id |-> 0, batch |-> batch]
    /\ LET r == ArrivalLines([stock |-> stock, log |-> device_arrivals],
                             MEDICAL_DEVICE, batch, 1)
       IN  /\ stock' = r.stock
           /\ device_arrivals' = r.log
    /\ response' = 200
    /\ UNCHANGED <<next_id, shipmentTables, transfers, arrivals,
                   dispensingTables>>

\* ---- two requests in progress at the same time ----
\* The handlers take no lock (no with_for_update, no isolation level): a
\* request reads the rows it needs, computes the new values in its session,
\* and writes them at its commit; another request may read and commit in
\* between.

\* the first queries of a request: the session loads the rows as committed
Begin(c, req) ==
    /\ ops > 0 /\ ops' = ops - 1
    /\ sessions[c].pc = "idle"
    /\ sessions' = [sessions EXCEPT ![c] =
                      [pc |-> "open", req |-> req, response |-> 0,
                       snap |-> [stock |-> stock, next_id |-> next_id,
                                 status |-> [s \in DOMAIN shipments |->
                                               shipments[s].status]]]]
    /\ UNCHANGED <<stock, next_id, shipmentTables, transfers, arrivalTables,
                   dispensingTables, request, response>>

\* the flush of a session: UPDATE of the rows it changed, by primary key and
\* with the values it computed; INSERT of the rows it added, under fresh keys
Flush(cur, snap, new, fresh) ==
    LET dirty == new \ snap.stock
    IN  {r \in cur : r.id \notin {d.id : d \in dirty}}
        \cup {[d EXCEPT !.id = IF d.id >= snap.next_id
                                THEN d.id + (fresh - snap.next_id) ELSE d.id] :
                d \in dirty}

\* the session is answered with code and closed
Close(c, code) ==
    /\ sessions' = [sessions EXCEPT ![c].pc = "done", ![c].response = code]
    /\ request' = sessions[c].req
    /\ response' = code

Rollback(c, code) ==
    /\ Close(c, code)
    /\ UNCHANGED <<stock, next_id, shipmentTables, transfers, arrivalTables,
                   dispensingTables>>

\* create_transfers from the check of its entries to db.commit()
CommitTransfers(c) ==
    LET s == sessions[c]
    IN  /\ s.pc = "open" /\ s.req.op = "create_transfers"
        /\ \E r \in TransferLines([ok |-> TRUE, stock |-> s.snap.stock,
                                    next_id |-> s.snap.next_id,
                                    transfers |-> <<>>], s.req.batch, 1) :
             IF r.ok
             THEN /\ stock' = Flush(stock, s.snap, r.stock, next_id)
                  /\ next_id' = next_id + (r.next_id - s.snap.next_id)
                  /\ transfers' = transfers \o r.transfers
                  /\ Close(c, 200)
                  /\ UNCHANGED <<shipmentTables, arrivalTables, dispensingTables>>
             ELSE Rollback(c, 400)
        /\ UNCHANGED ops

\* accept_shipment from the status check of line 901 to db.commit()
CommitAccept(c) ==
    LET s == sessions[c]
        sid == s.req.id
    IN  /\ s.pc = "open" /\ s.req.op = "accept_shipment"
        /\ IF sid \notin DOMAIN s.snap.status THEN Rollback(c, 404)
           ELSE IF s.snap.status[sid] # PENDING THEN Rollback(c, 409)
           ELSE \E r \in AcceptItems([stock |-> s.snap.stock,
                                       next_id |-> s.snap.next_id],
                                      shipments[sid].to_branch_id,
                                      ItemsOf(sid), 1) :
                  /\ stock' = Flush(stock, s.snap, r.stock, next_id)
                  /\ next_id' = next_id + (r.next_id - s.snap.next_id)
                  /\ shipments' = [shipments EXCEPT
                                     ![sid].status = ACCEPTED,
                                     ![sid].accepted_at = Some(now)]
                  /\ now' = now + 1
                  /\ effects' = [effects EXCEPT ![sid] = @ + 1]
                  /\ Close(c, 200)
                  /\ UNCHANGED <<shipment_items, notifications, resets, transfers,
                                 arrivalTables, dispensingTables>>
        /\ UNCHANGED ops

\* create_dispensing_record from its first query to db.commit()
CommitDispensing(c) ==
    LET s == sessions[c]
        rid == Len(dispensing_records) + 1
        r == DispenseItems([ok |-> TRUE, stock |-> s.snap.stock, items |-> <<>>],
                           rid, s.req.branch_id, s.req.items, 1)
    IN  /\ s.pc = "open" /\ s.req.op = "create_dispensing_record"
        /\ IF s.req.patient_id \in Patients /\ s.req.employee_id \in Employees
              /\ r.ok
           THEN /\ stock' = Flush(stock, s.snap, r.stock, next_id)
                /\ dispensing_items' = dispensing_items \o r.items
                /\ dispensing_records' = Append(dispensing_records,
                      [patient_id |-> s.req.patient_id,
                       employee_id |-> s.req.employee_id,
                       branch_id |-> s.req.branch_id])
                /\ Close(c, 200)
                /\ UNCHANGED <<next_id, shipmentTables, transfers, arrivalTables>>
           ELSE Rollback(c, 400)
        /\ UNCHANGED ops

\* create_arrivals from its first query to db.commit()
CommitArrivals(c) ==
    LET s == sessions[c]
        r == ArrivalLines([stock |-> s.snap.stock, log |-> <<>>], MEDICINE,
                          s.req.batch, 1)
    IN  /\ s.pc = "open" /\ s.req.op = "create_arrivals"
        /\ stock' = Flush(stock, s.snap, r.stock, next_id)
        /\ arrivals' = arrivals \o r.log
        /\ Close(c, 200)
        /\ UNCHANGED <<next_id, shipmentTables, transfers, device_arrivals,
                       dispensingTables, ops>>

\* ---- initial state: a catalog in the central warehouse ----
Catalog ==
    {StockRow(1, MEDICINE, "A", "c1", 1, 1, MaxQty, None),
     StockRow(2, MEDICAL_DEVICE, "A", "c2", 1, 1, MaxQty, None)}

InitDb ==
    /\ shipments = <<>>
    /\ shipment_items = <<>>
    /\ notifications = <<>>
    /\ transfers = <<>>
    /\ arrivals = <<>>
    /\ device_arrivals = <<>>
    /\ dispensing_records = <<>>
    /\ dispensing_items = <<>>
    /\ now = 1
    /\ request = [op |-> "none", id |-> 0]
    /\ response = 0
    /\ effects = <<>>
    /\ resets = <<>>
    /\ sessions = [c \in Clients |-> Idle]

\* ---- the shipment lifecycle on its own ----
ShipLine == [id : {1}, quantity : Positive]
DevLine == [id : {2}, quantity : Positive]
\* the shipments there are, and one id there is not
ShipmentIds == 1..(Len(shipments) + 1)
\* status_data["status"] is any text: the three states and one that is none
StatusInputs == Statuses \cup {"lost"}

InitShip == InitDb /\ stock = Catalog /\ next_id = 3 /\ ops = MaxShipOps

NextShip ==
    \/ ops > 0 /\ \E to \in {"b1"}, meds \in SeqsUpTo(ShipLine, 1),
          devs \in SeqsUpTo(DevLine, 1) : create_shipment(to, meds, devs)
    \/ ops > 0 /\ \E sid \in ShipmentIds : accept_shipment(sid)
    \/ ops > 0 /\ \E sid \in ShipmentIds, reason \in Reasons : reject_shipment(sid, reason)
    \/ ops > 0 /\ \E sid \in ShipmentIds, st \in StatusInputs :
          update_shipment_status(sid, st)
    \/ ops > 0 /\ delete_medicine(1)

SpecShip == InitShip /\ [][NextShip]_vars

\* ---- every handler of the inventory engine, on well-formed requests ----
TransferLine ==
    [medicine_id : {1}, medicine_name : {"A"}, quantity : Positive,
     from_branch_id : {None}, to_branch_id : Branches]
StockIds == {r.id : r \in stock}
DispenseLine ==
    [type : {MEDICINE, MEDICAL_DEVICE}, id : StockIds, name : {"A"},
     quantity : Positive]
ArrivalLine(id) ==
    [item_id : {id}, item_name : {"A"}, quantity : Positive,
     purchase_price : {2}, sell_price : {Null, Some(2)}]

Init == InitDb /\ stock = Catalog /\ next_id = 3 /\ ops = MaxOps

Next ==
    \/ ops > 0 /\ \E batch \in SeqsUpTo(TransferLine, MaxLines) : create_transfers(batch)
    \/ ops > 0 /\ \E to \in Branches, meds \in SeqsUpTo(ShipLine, 1),
          devs \in SeqsUpTo(DevLine, 1) : create_shipment(to, meds, devs)
    \/ ops > 0 /\ \E sid \in ShipmentIds : accept_shipment(sid)
    \/ ops > 0 /\ \E sid \in ShipmentIds : reject_shipment(sid, "r1")
    \/ ops > 0 /\ \E sid \in ShipmentIds, st \in Statuses : update_shipment_status(sid, st)
    \/ ops > 0 /\ \E b \in Branches, items \in SeqsUpTo(DispenseLine, 1) :
          create_dispensing_record("p1", "e1", b, items)
    \/ ops > 0 /\ \E batch \in SeqsUpTo(ArrivalLine(1), 1) : create_arrivals(batch)
    \/ ops > 0 /\ \E batch \in SeqsUpTo(ArrivalLine(2), 1) : create_device_arrivals(batch)
    \/ ops > 0 /\ delete_medicine(1)

Spec == Init /\ [][Next]_vars

\* ---- one transfer batch, on arbitrary requests ----
\* a second warehouse medicine that shares the name of the first, and
\* branch b1 holding a copy of "A" already, or not yet
TransferCatalog ==
    {StockRow(1, MEDICINE, "A", "c1", 1, 1, MaxQty + 1, None),
     StockRow(3, MEDICINE, "A", "c1", 2, 2, MaxQty, None)}
BranchCopies ==
    {{}} \cup {{StockRow(4, MEDICINE, "A", "c1", 1, 1, q, "b1")} : q \in 0..MaxQty}

AnyTransferLine ==
    [medicine_id : {1, 2, 3}, medicine_name : Names, quantity : Quantities,
     from_branch_id : {None}, to_branch_id : Branches]

InitTransfer ==
    /\ InitDb
    /\ ops = 1
    /\ \E copies \in BranchCopies : stock = TransferCatalog \cup copies
    /\ next_id = 5

NextTransfer ==
    ops > 0 /\ \E batch \in SeqsUpTo(AnyTransferLine, MaxLines) : create_transfers(batch)

SpecTransfer == InitTransfer /\ [][NextTransfer]_vars

\* ---- one shipment creation on any request ----
\* the warehouse holds medicine 1 and device 2; no row has id 3
CreateCatalog(q) ==
    {StockRow(1, MEDICINE, "A", "c1", 1, 1, q, None),
     StockRow(2, MEDICAL_DEVICE, "B", "c2", 1, 1, MaxQty, None)}

AnyMedLine == [id : {1, 3}, quantity : Quantities]
AnyDevLine == [id : {2, 3}, quantity : Quantities]

\* the database holds no shipment yet, or one that was created before
InitCreate ==
    /\ stock \in {CreateCatalog(q) : q \in 0..(MaxQty + 1)}
    /\ next_id = 3
    /\ ops = 1
    /\ now = 1
    /\ request = [op |-> "none", id |-> 0]
    /\ response = 0
    /\ transfers = <<>> /\ arrivals = <<>> /\ device_arrivals = <<>>
    /\ dispensing_records = <<>> /\ dispensing_items = <<>>
    /\ \/ /\ shipments = <<>> /\ shipment_items = <<>>
          /\ notifications = <<>> /\ effects = <<>> /\ resets = <<>>
       \/ /\ shipments = <<[to_branch_id |-> "b1", status |-> PENDING,
                            rejection_reason |-> None, accepted_at |-> Null]>>
          /\ shipment_items = <<[shipment_id |-> 1, item_type |-> MEDICAL_DEVICE,
                                 item_id |-> 2, item_name |-> "B",
                                 quantity |-> 1]>>
          /\ notifications = <<[branch_id |-> "b1", is_read |-> 0]>>
          /\ effects = <<0>> /\ resets = <<0>>
    /\ sessions = [c \in Clients |-> Idle]

NextCreate ==
    ops > 0 /\ \E to \in Branches, meds \in SeqsUpTo(AnyMedLine, MaxLines),
                   devs \in SeqsUpTo(AnyDevLine, 1) :
                create_shipment(to, meds, devs)

SpecCreate == InitCreate /\ [][NextCreate]_vars

\* ---- one dispensing request on any request ----
\* branch b1 holds medicine 1 and device 2; the warehouse holds medicine 3
DispenseCatalog(q) ==
    {StockRow(1, MEDICINE, "A", "c1", 1, 1, q, "b1"),
     StockRow(2, MEDICAL_DEVICE, "B", "c2", 1, 1, MaxQty, "b1"),
     StockRow(3, MEDICINE, "A", "c1", 1, 1, MaxQty, None)}

\* item["type"] is any text: the two tables and one that is neither
AnyDispenseLine ==
    [type : {MEDICINE}, id : {1, 3}, name : {"A"}, quantity : Quantities]
    \cup [type : {MEDICAL_DEVICE}, id : {2}, name : {"B"}, quantity : Quantities]
    \cup [type : {"other"}, id : {1, 3}, name : {"A"}, quantity : {1}]

\* the patient and the employee of a request, known or not
People == {<<"p1", "e1">>, <<"p0", "e1">>, <<"p1", "e0">>}

InitDispense ==
    /\ InitDb
    /\ stock \in {DispenseCatalog(q) : q \in 0..(MaxQty + 1)}
    /\ next_id = 4
    /\ ops = 1

NextDispense ==
    ops > 0 /\ \E pe \in People, b \in Branches,
                   items \in SeqsUpTo(AnyDispenseLine, MaxLines) :
                create_dispensing_record(pe[1], pe[2], b, items)

SpecDispense == InitDispense /\ [][NextDispense]_vars

\* ---- one arrival batch on any request ----
\* the warehouse holds medicine 1 and device 2; branch b1 holds medicine 3
\* and device 4
ArrivalCatalog ==
    {StockRow(1, MEDICINE, "A", "c1", 1, 1, MaxQty, None),
     StockRow(2, MEDICAL_DEVICE, "B", "c2", 1, 1, MaxQty, None),
     StockRow(3, MEDICINE, "A", "c1", 1, 1, MaxQty, "b1"),
     StockRow(4, MEDICAL_DEVICE, "B", "c2", 1, 1, MaxQty, "b1")}

\* entries for a warehouse row, for a row only a branch holds and for an id
\* no row of the table has; a sell price is supplied or not
AnyArrivalLine(ids) ==
    [item_id : ids, item_name : {"A"}, quantity : Quantities,
     purchase_price : {1, 2}, sell_price : {Null, Some(2)}]

InitArrival ==
    /\ InitDb
    /\ stock = ArrivalCatalog
    /\ next_id = 6
    /\ ops = 1

NextArrival ==
    \/ ops > 0 /\ \E batch \in SeqsUpTo(AnyArrivalLine({1, 3, 5}), MaxLines) :
          create_arrivals(batch)
    \/ ops > 0 /\ \E batch \in SeqsUpTo(AnyArrivalLine({2, 4}), MaxLines) :
          create_device_arrivals(batch)

SpecArrival == InitArrival /\ [][NextArrival]_vars

\* ---- two clients, one request each, on the same rows ----
\* the warehouse holds medicine 1, branch b1 holds a copy of it (row 3), and
\* one shipment of one unit of medicine 1 to b1 is pending
RaceQty == MaxQty + 1
RaceCatalog ==
    {StockRow(1, MEDICINE, "A", "c1", 1, 1, RaceQty, None),
     StockRow(3, MEDICINE, "A", "c1", 1, 1, RaceQty, "b1")}

RaceRequests ==
    {[op |-> "create_transfers", id |-> 0,
      batch |-> <<[medicine_id |-> 1, medicine_name |-> "A", quantity |-> q,
                   from_branch_id |-> None, to_branch_id |-> "b1"]>>] :
       q \in 1..RaceQty}
    \cup {[op |-> "accept_shipment", id |-> 1]}
    \cup {[op |-> "create_dispensing_record", id |-> 0, patient_id |-> "p1",
           employee_id |-> "e1", branch_id |-> "b1",
           items |-> <<[type |-> MEDICINE, id |-> 3, name |-> "A",
                        quantity |-> q]>>] : q \in 1..RaceQty}
    \cup {[op |-> "create_arrivals", id |-> 0,
           batch |-> <<[item_id |-> 1, item_name |-> "A", quantity |-> 1,
                        purchase_price |-> 1, sell_price |-> Null]>>]}

InitRace ==
    /\ stock = RaceCatalog
    /\ next_id = 4
    /\ shipments = <<[to_branch_id |-> "b1", status |-> PENDING,
                      rejection_reason |-> None, accepted_at |-> Null]>>
    /\ shipment_items = <<[shipment_id |-> 1, item_type |-> MEDICINE,
                           item_id |-> 1, item_name |-> "A", quantity |-> 1]>>
    /\ notifications = <<[branch_id |-> "b1", is_read |-> 0]>>
    /\ effects = <<0>> /\ resets = <<0>>
    /\ transfers = <<>> /\ arrivals = <<>> /\ device_arrivals = <<>>
    /\ dispensing_records = <<>> /\ dispensing_items = <<>>
    /\ now = 1
    /\ ops = 2
    /\ request = [op |-> "none", id |-> 0]
    /\ response = 0
    /\ sessions = [c \in Clients |-> Idle]

NextRace ==
    \/ \E c \in Clients, req \in RaceRequests : Begin(c, req)
    \/ \E c \in Clients : CommitTransfers(c)
    \/ \E c \in Clients : CommitAccept(c)
    \/ \E c \in Clients : CommitDispensing(c)
    \/ \E c \in Clients : CommitArrivals(c)

SpecRace == InitRace /\ [][NextRace]_vars

\* ---- the four movements, two requests deep ----
\* the warehouse holds medicine 1 and device 2; branch b1 holds medicine 3
LedgerCatalog ==
    {StockRow(1, MEDICINE, "A", "c1", 1, 1, MaxQty, None),
     StockRow(2, MEDICAL_DEVICE, "B", "c2", 1, 1, MaxQty, None),
     StockRow(3, MEDICINE, "B", "c1", 1, 1, MaxQty, "b1")}

LedgerTransferLine ==
    [medicine_id : {1, 5}, medicine_name : {"A"}, quantity : 0..MaxQty,
     from_branch_id : {None}, to_branch_id : {"b1"}]
LedgerArrivalLine(ids) ==
    [item_id : ids, item_name : {"A"}, quantity : Positive,
     purchase_price : {1}, sell_price : {Null}]
LedgerDispenseLine ==
    [type : {MEDICINE, "other"}, id : {3}, name : {"B"}, quantity : Positive]

InitLedger ==
    /\ InitDb
    /\ stock = LedgerCatalog
    /\ next_id = 6
    /\ ops = 2

NextLedger ==
    \/ ops > 0 /\ \E batch \in SeqsUpTo(LedgerTransferLine, MaxLines) :
          create_transfers(batch)
    \/ ops > 0 /\ \E batch \in SeqsUpTo(LedgerArrivalLine({1, 3}), MaxLines) :
          create_arrivals(batch)
    \/ ops > 0 /\ \E batch \in SeqsUpTo(LedgerArrivalLine({2, 4}), MaxLines) :
          create_device_arrivals(batch)
    \/ ops > 0 /\ \E items \in SeqsUpTo(LedgerDispenseLine, MaxLines) :
          create_dispensing_record("p1", "e1", "b1", items)

SpecLedger == InitLedger /\ [][NextLedger]_vars

\* ---- branch copies: found or created ----
\* the warehouse holds medicine 1 and device 2; branch b1 holds, or does not
\* hold, copies of them under another category and other prices; a shipment
\* of one unit of each is pending for each branch
CopyCatalog ==
    {StockRow(1, MEDICINE, "A", "c1", 2, 2, MaxQty + 1, None),
     StockRow(2, MEDICAL_DEVICE, "B", "c2", 2, 2, MaxQty + 1, None)}
OldCopies ==
    {StockRow(4, MEDICINE, "A", "c8", 1, 1, 0, "b1"),
     StockRow(5, MEDICAL_DEVICE, "B", "c9", 1, 1, MaxQty, "b1")}

CopyTransferLine ==
    [medicine_id : {1}, medicine_name : Names, quantity : Positive,
     from_branch_id : {None}, to_branch_id : Branches]

InitCopy ==
    /\ stock \in {CopyCatalog \cup old : old \in SUBSET OldCopies}
    /\ next_id = 6
    /\ shipments = [s \in 1..2 |->
                      [to_branch_id |-> IF s = 1 THEN "b1" ELSE "b2",
                       status |-> PENDING, rejection_reason |-> None,
                       accepted_at |-> Null]]
    /\ shipment_items =
         <<[shipment_id |-> 1, item_type |-> MEDICINE, item_id |-> 1,
            item_name |-> "A", quantity |-> 1],
           [shipment_id |-> 1, item_type |-> MEDICAL_DEVICE, item_id |-> 2,
            item_name |-> "B", quantity |-> 1],
           [shipment_id |-> 2, item_type |-> MEDICINE, item_id |-> 1,
            item_name |-> "A", quantity |-> 1]>>
    /\ notifications = <<[branch_id |-> "b1", is_read |-> 0],
                         [branch_id |-> "b2", is_read |-> 0]>>
    /\ effects = <<0, 0>> /\ resets = <<0, 0>>
    /\ transfers = <<>> /\ arrivals = <<>> /\ device_arrivals = <<>>
    /\ dispensing_records = <<>> /\ dispensing_items = <<>>
    /\ now = 1
    /\ ops = 2
    /\ request = [op |-> "none", id |-> 0]
    /\ response = 0
    /\ sessions = [c \in Clients |-> Idle]

NextCopy ==
    \/ ops > 0 /\ \E batch \in SeqsUpTo(CopyTransferLine, 1) : create_transfers(batch)
    \/ ops > 0 /\ \E sid \in 1..2 : accept_shipment(sid)

SpecCopy == InitCopy /\ [][NextCopy]_vars

\* ---- a warehouse medicine renamed while its shipment is under way ----
\* the warehouse holds medicine 1 under the name "A"; branch b1 holds, or does
\* not hold, a row named "A" and a row named "B"
RenameCatalog == {StockRow(1, MEDICINE, "A", "c1", 1, 1, MaxQty + 1, None)}
RenameCopies ==
    {StockRow(3, MEDICINE, "A", "c1", 1, 1, 0, "b1"),
     StockRow(4, MEDICINE, "B", "c1", 1, 1, 0, "b1")}

InitRename ==
    /\ InitDb
    /\ stock \in {RenameCatalog \cup old : old \in SUBSET RenameCopies}
    /\ next_id = 5
    /\ ops = 3

NextRename ==
    \/ ops > 0 /\ \E meds \in SeqsUpTo(ShipLine, 1) : create_shipment("b1", meds, <<>>)
    \/ ops > 0 /\ \E name \in Names : update_medicine(1, name)
    \/ ops > 0 /\ \E sid \in ShipmentIds : accept_shipment(sid)
    \/ ops > 0 /\ \E sid \in ShipmentIds : reject_shipment(sid, "r1")
    \/ ops > 0 /\ \E sid \in ShipmentIds, st \in StatusInputs :
          update_shipment_status(sid, st)

SpecRename == InitRename /\ [][NextRename]_vars

\* ---- transfers and acceptances that bring one name twice ----
\* the warehouse holds medicines 1 and 3, both named "A", and device 2, named
\* "A" too; branch b1 holds a medicine named "A" already, or not yet; pending
\* are a shipment of both medicines and the device to b1 and a shipment of
\* both medicines to b2
UniqueCatalog ==
    {StockRow(1, MEDICINE, "A", "c1", 1, 1, MaxQty + 1, None),
     StockRow(3, MEDICINE, "A", "c1", 2, 2, MaxQty + 1, None),
     StockRow(2, MEDICAL_DEVICE, "A", "c2", 1, 1, MaxQty + 1, None)}
UniqueCopies == {{}, {StockRow(4, MEDICINE, "A", "c1", 1, 1, 0, "b1")}}

UniqueTransferLine ==
    [medicine_id : {1, 3}, medicine_name : Names, quantity : {1},
     from_branch_id : {None}, to_branch_id : Branches]

InitUnique ==
    /\ stock \in {UniqueCatalog \cup old : old \in UniqueCopies}
    /\ next_id = 5
    /\ shipments = [s \in 1..2 |->
                      [to_branch_id |-> IF s = 1 THEN "b1" ELSE "b2",
                       status |-> PENDING, rejection_reason |-> None,
                       accepted_at |-> Null]]
    /\ shipment_items =
         <<[shipment_id |-> 1, item_type |-> MEDICINE, item_id |-> 1,
            item_name |-> "A", quantity |-> 1],
           [shipment_id |-> 1, item_type |-> MEDICINE, item_id |-> 3,
            item_name |-> "A", quantity |-> 1],
           [shipment_id |-> 1, item_type |-> MEDICAL_DEVICE, item_id |-> 2,
            item_name |-> "A", quantity |-> 1],
           [shipment_id |-> 2, item_type |-> MEDICINE, item_id |-> 1,
            item_name |-> "A", quantity |-> 1],
           [shipment_id |-> 2, item_type |-> MEDICINE, item_id |-> 3,
            item_name |-> "A", quantity |-> 1]>>
    /\ notifications = <<[branch_id |-> "b1", is_read |-> 0],
                         [branch_id |-> "b2", is_read |-> 0]>>
    /\ effects = <<0, 0>> /\ resets = <<0, 0>>
    /\ transfers = <<>> /\ arrivals = <<>> /\ device_arrivals = <<>>
    /\ dispensing_records = <<>> /\ dispensing_items = <<>>
    /\ now = 1
    /\ ops = 2
    /\ request = [op |-> "none", id |-> 0]
    /\ response = 0
    /\ sessions = [c \in Clients |-> Idle]

NextUnique ==
    \/ ops > 0 /\ \E batch \in SeqsUpTo(UniqueTransferLine, MaxLines) :
          create_transfers(batch)
    \/ ops > 0 /\ \E sid \in 1..2 : accept_shipment(sid)

SpecUnique == InitUnique /\ [][NextUnique]_vars

\* ---- one dispensing request where a name is held at every location ----
\* medicine "A" is held by branch b1 (row 1), by branch b2 (row 4) and by the
\* warehouse (row 3); device "A" by branch b1 (row 2) and the warehouse (row 5)
LocalCatalog(q) ==
    {StockRow(1, MEDICINE, "A", "c1", 1, 1, q, "b1"),
     StockRow(4, MEDICINE, "A", "c1", 1, 1, MaxQty, "b2"),
     StockRow(3, MEDICINE, "A", "c1", 1, 1, MaxQty, None),
     StockRow(2, MEDICAL_DEVICE, "A", "c2", 1, 1, MaxQty, "b1"),
     StockRow(5, MEDICAL_DEVICE, "A", "c2", 1, 1, MaxQty, None)}

LocalDispenseLine ==
    [type : {MEDICINE}, id : {1, 3, 4}, name : {"A"}, quantity : Quantities]
    \cup [type : {MEDICAL_DEVICE}, id : {2, 5}, name : {"A"}, quantity : Quantities]

InitLocal ==
    /\ InitDb
    /\ stock \in {LocalCatalog(q) : q \in 0..(MaxQty + 1)}
    /\ next_id = 6
    /\ ops = 1

NextLocal ==
    ops > 0 /\ \E b \in Branches, items \in SeqsUpTo(LocalDispenseLine, MaxLines) :
                create_dispensing_record("p1", "e1", b, items)

SpecLocal == InitLocal /\ [][NextLocal]_vars

\* ======================= properties =======================
RECURSIVE SumOver(_, _)
SumOver(S, f) ==
    IF S = {} THEN 0
    ELSE LET x == CHOOSE y \in S : TRUE IN f[x] + SumOver(S \ {x}, f)

\* the quantity the warehouse holds of an item; the quantity a branch holds
\* under a name; the quantity held under a name over all locations
WarehouseQty(tbl, kind, id) ==
    SumOver(MainRows(tbl, kind, id), [r \in tbl |-> r.quantity])
BranchQty(tbl, kind, name, b) ==
    SumOver(BranchRows(tbl, kind, name, b), [r \in tbl |-> r.quantity])
TotalQty(tbl, kind, name) ==
    SumOver({r \in tbl : r.kind = kind /\ r.name = name}, [r \in tbl |-> r.quantity])

Succeeded(op) == request'.op = op /\ response' = 200
KnownShipment == request'.id \in DOMAIN shipments

\* C1: after every committed core operation every stock quantity, in the
\* warehouse and in the branches, is >= 0.
C1_QuantityNeverNegative == \A r \in stock : r.quantity >= 0

\* C2 as stated: after a successful transfer batch (of positive quantities),
\* for each entry of quantity q the warehouse holds q less of the entry's
\* medicine than before the batch and the branch holds q more under the
\* entry's name.
C2_EachEntryMovesItsQuantity ==
    [][(Succeeded("create_transfers")
          /\ \A i \in DOMAIN request'.batch : request'.batch[i].quantity > 0) =>
        \A i \in DOMAIN request'.batch :
          LET e == request'.batch[i]
          IN  /\ WarehouseQty(stock', MEDICINE, e.medicine_id)
                   = WarehouseQty(stock, MEDICINE, e.medicine_id) - e.quantity
              /\ BranchQty(stock', MEDICINE, e.medicine_name, e.to_branch_id)
                   = BranchQty(stock, MEDICINE, e.medicine_name, e.to_branch_id)
                     + e.quantity]_vars

\* the quantity a batch takes from a warehouse medicine / brings to a name
\* at a branch
BatchOut(batch, id) ==
    SumOver({i \in DOMAIN batch : batch[i].medicine_id = id},
            [i \in DOMAIN batch |-> batch[i].quantity])
BatchIn(batch, name, b) ==
    SumOver({i \in DOMAIN batch : batch[i].medicine_name = name
                                   /\ batch[i].to_branch_id = b},
            [i \in DOMAIN batch |-> batch[i].quantity])

\* C2 amended: after a successful transfer batch, each warehouse medicine
\* holds its quantity before the batch minus the sum of the quantities of the
\* batch's entries for it, and each branch holds under each name its quantity
\* before plus the sum of the quantities of the entries with that name and
\* destination.
C2_BatchMovesTheSumOfItsEntries ==
    [][Succeeded("create_transfers") =>
        \A i \in DOMAIN request'.batch :
          LET e == request'.batch[i]
          IN  /\ WarehouseQty(stock', MEDICINE, e.medicine_id)
                   = WarehouseQty(stock, MEDICINE, e.medicine_id)
                     - BatchOut(request'.batch, e.medicine_id)
              /\ BranchQty(stock', MEDICINE, e.medicine_name, e.to_branch_id)
                   = BranchQty(stock, MEDICINE, e.medicine_name, e.to_branch_id)
                     + BatchIn(request'.batch, e.medicine_name, e.to_branch_id)]_vars

\* a committed batch of two entries for the same medicine and destination
C2_TwoEntriesOfOneMedicine ==
    /\ request.op = "create_transfers" /\ response = 200
    /\ Len(request.batch) = 2
    /\ request.batch[1].medicine_id = request.batch[2].medicine_id
    /\ request.batch[1].medicine_name = request.batch[2].medicine_name
    /\ request.batch[1].to_branch_id = request.batch[2].to_branch_id
    /\ request.batch[1].quantity > 0 /\ request.batch[2].quantity > 0

\* C3: a successful accept of a pending shipment takes each item's quantity
\* out of the warehouse row of the item (where there is one), adds it to the
\* destination branch's copy, and leaves no quantity negative.
C3_AcceptMovesEachItem ==
    [][Succeeded("accept_shipment") =>
        /\ \A i \in DOMAIN ItemsOf(request'.id) :
             LET it == ItemsOf(request'.id)[i]
                 to == shipments[request'.id].to_branch_id
             IN  /\ MainRows(stock, it.item_type, it.item_id) # {} =>
                      WarehouseQty(stock', it.item_type, it.item_id)
                        = WarehouseQty(stock, it.item_type, it.item_id) - it.quantity
                 /\ BranchQty(stock', it.item_type, it.item_name, to)
                      = BranchQty(stock, it.item_type, it.item_name, to) + it.quantity
        /\ \A r \in stock' : r.quantity >= 0]_vars

\* C4: the quantity held under an item's name over all locations is changed
\* by no transfer step and by no shipment-accept step, also when the accepted
\* item has no warehouse row.
C4_TransferAndAcceptConserve ==
    [][request'.op \in {"create_transfers", "accept_shipment"} =>
        \A kind \in {MEDICINE, MEDICAL_DEVICE}, name \in Names :
          TotalQty(stock', kind, name) = TotalQty(stock, kind, name)]_vars

\* the accepted shipment has an item of which the warehouse holds less than
\* the item's quantity
Understocked(sid) ==
    \E i \in DOMAIN ItemsOf(sid) :
      LET it == ItemsOf(sid)[i]
      IN  /\ MainRows(stock, it.item_type, it.item_id) # {}
          /\ WarehouseQty(stock, it.item_type, it.item_id) < it.quantity

\* C5: accepting a pending shipment of which the warehouse holds less than an
\* item's quantity fails with 400, and leaves the shipment pending, accepted_at
\* unset and every stock quantity as it was.
C5_UnderstockedAcceptFails ==
    [][(request'.op = "accept_shipment" /\ KnownShipment
          /\ shipments[request'.id].status = PENDING /\ Understocked(request'.id))
        => /\ response' = 400
           /\ shipments' = shipments
           /\ stock' = stock]_vars

\* C6: a shipment creation, successful or failed, changes no stock row.
C6_CreateLeavesStock ==
    [][request'.op = "create_shipment" => stock' = stock]_vars

\* two pending shipments, each for the whole warehouse quantity of medicine 1,
\* the second just created
C6_TwoShipmentsOfWholeStock ==
    /\ request.op = "create_shipment" /\ response = 200
    /\ \E s1, s2 \in DOMAIN shipments :
         /\ s1 # s2
         /\ \A s \in {s1, s2} :
              /\ shipments[s].status = PENDING
              /\ \E i \in DOMAIN ItemsOf(s) :
                   /\ ItemsOf(s)[i].item_type = MEDICINE
                   /\ ItemsOf(s)[i].item_id = 1
                   /\ ItemsOf(s)[i].quantity = WarehouseQty(stock, MEDICINE, 1)
                   /\ ItemsOf(s)[i].quantity > 0

\* C7: accept on a shipment that is not pending answers 409 and changes no
\* stock row and no field of any shipment; the stock moves are not repeated.
C7_AcceptNonPendingConflicts ==
    [][(request'.op = "accept_shipment" /\ KnownShipment
          /\ shipments[request'.id].status # PENDING)
        => /\ response' = 409
           /\ stock' = stock
           /\ shipments' = shipments
           /\ effects' = effects]_vars

\* a second accept of a shipment whose first accept moved stock
C7_SecondAcceptRefused ==
    /\ request.op = "accept_shipment" /\ response = 409
    /\ request.id \in DOMAIN shipments
    /\ shipments[request.id].status = ACCEPTED
    /\ effects[request.id] = 1
    /\ ItemsOf(request.id) # <<>>

\* C8: reject on a shipment that is already rejected answers 409 and leaves
\* its status and rejection_reason as the first reject set them.
C8_SecondRejectConflicts ==
    [][(request'.op = "reject_shipment" /\ KnownShipment
          /\ shipments[request'.id].status = REJECTED)
        => /\ response' = 409
           /\ shipments' = shipments]_vars

\* C9: once a shipment is accepted or rejected, no accept or reject call
\* changes its status.
C9_TerminalStatus ==
    [][request'.op \in {"accept_shipment", "reject_shipment"} =>
        \A s \in DOMAIN shipments :
          shipments[s].status \in {ACCEPTED, REJECTED} =>
            shipments'[s].status = shipments[s].status]_vars

\* C10 as stated: over every history of create, accept, reject and status
\* override calls the stock moves of a shipment are committed at most once.
C10_EffectsAtMostOnce ==
    \A s \in DOMAIN shipments : ItemsOf(s) # <<>> => effects[s] <= 1

\* C10 amended: the stock moves of a shipment are committed only in the step
\* that takes its status from pending to accepted, and at most once more than
\* the number of status overrides that put the shipment back to pending.
C10_EffectsOncePerPending ==
    [][\A s \in DOMAIN shipments' :
         /\ s \in DOMAIN shipments /\ effects'[s] # effects[s] =>
              /\ shipments[s].status = PENDING
              /\ shipments'[s].status = ACCEPTED
              /\ effects'[s] = effects[s] + 1
         /\ effects'[s] <= 1 + resets'[s]]_vars

\* a shipment whose stock moves were committed a second time, after an
\* override put it back to pending
C10_AcceptedAgainAfterOverride ==
    \E s \in DOMAIN shipments :
      /\ effects[s] = 2 /\ resets[s] = 1
      /\ shipments[s].status = ACCEPTED
      /\ ItemsOf(s) # <<>>

\* C11 as stated: in every reachable state every shipment's status is one of
\* pending, accepted, rejected.
C11_StatusIsOneOfThree ==
    \A s \in DOMAIN shipments : shipments[s].status \in Statuses

\* C11: create, accept and reject write only pending, accepted or rejected:
\* a shipment's status is outside the three only where a direct status
\* override wrote that value (or an earlier one did and it was kept since).
C11_OnlyOverrideLeavesTheThree ==
    [][\A s \in DOMAIN shipments' :
         shipments'[s].status \notin Statuses =>
           \/ /\ s \in DOMAIN shipments
              /\ shipments'[s].status = shipments[s].status
           \/ /\ Succeeded("update_shipment_status")
              /\ request'.id = s
              /\ request'.status = shipments'[s].status]_vars

\* an overridden shipment outside the three states, later rejected into them
C11_LostThenRejected ==
    /\ request.op = "reject_shipment" /\ response = 200
    /\ shipments[request.id].status = REJECTED
    /\ \E s \in DOMAIN shipments : shipments[s].status = "lost"

\* C12 as stated: accepted_at is written only in a step that takes the
\* shipment from pending to accepted, a shipment whose status is accepted has
\* it set, and once set it is never written again.
C12_AcceptedAtSetOnce ==
    [][\A s \in DOMAIN shipments' :
         /\ shipments'[s].status = ACCEPTED => shipments'[s].accepted_at # Null
         /\ s \in DOMAIN shipments
              /\ shipments'[s].accepted_at # shipments[s].accepted_at =>
              /\ shipments[s].accepted_at = Null
              /\ shipments[s].status = PENDING
              /\ shipments'[s].status = ACCEPTED
         /\ s \notin DOMAIN shipments => shipments'[s].accepted_at = Null]_vars

\* C12: a new shipment has no accepted_at; accepted_at is written only by a
\* successful accept of that shipment, in the step that takes it from pending
\* to accepted, and that step sets it; no other operation writes it (so it is
\* written again only after an override made the shipment pending again, and
\* an override to accepted leaves it as it was).
C12_AcceptedAtWrittenByAcceptOnly ==
    [][/\ \A s \in DOMAIN shipments' :
            /\ s \notin DOMAIN shipments => shipments'[s].accepted_at = Null
            /\ s \in DOMAIN shipments
                 /\ shipments'[s].accepted_at # shipments[s].accepted_at =>
                 /\ Succeeded("accept_shipment") /\ request'.id = s
                 /\ shipments[s].status = PENDING
                 /\ shipments'[s].status = ACCEPTED
                 /\ effects[s] <= resets[s]
       /\ Succeeded("accept_shipment") =>
            shipments'[request'.id].accepted_at # Null]_vars

\* a shipment accepted by an override (no accepted_at) beside one accepted by
\* accept (accepted_at set)
C12_AcceptedWithAndWithoutStamp ==
    \E s, t \in DOMAIN shipments :
      /\ shipments[s].status = ACCEPTED /\ shipments[s].accepted_at = Null
      /\ shipments[t].status = ACCEPTED /\ shipments[t].accepted_at # Null

\* C13 as stated: in every reachable state a shipment carries a
\* rejection_reason only if its status is rejected.
C13_ReasonOnlyWhenRejected ==
    \A s \in DOMAIN shipments :
      shipments[s].rejection_reason # None => shipments[s].status = REJECTED

\* C13: a new shipment has no rejection_reason; the reason is written only by
\* a successful reject of that shipment, which leaves it rejected with the
\* reason of the request; a shipment that carries a reason leaves the status
\* rejected only through a direct status override.
C13_ReasonWrittenByRejectOnly ==
    [][\A s \in DOMAIN shipments' :
         /\ s \notin DOMAIN shipments => shipments'[s].rejection_reason = None
         /\ s \in DOMAIN shipments
              /\ shipments'[s].rejection_reason # shipments[s].rejection_reason =>
              /\ Succeeded("reject_shipment") /\ request'.id = s
              /\ shipments'[s].status = REJECTED
              /\ shipments'[s].rejection_reason = request'.reason
         /\ s \in DOMAIN shipments
              /\ shipments[s].rejection_reason # None
              /\ shipments[s].status = REJECTED
              /\ shipments'[s].status # REJECTED =>
              /\ Succeeded("update_shipment_status") /\ request'.id = s]_vars

\* a rejected shipment that an override has made pending again: it still
\* carries the reason
C13_PendingWithReason ==
    \E s \in DOMAIN shipments :
      /\ shipments[s].status = PENDING
      /\ shipments[s].rejection_reason \in Reasons
      /\ request.op = "update_shipment_status" /\ request.id = s

\* C14: a successful reject of a pending shipment leaves it rejected with the
\* reason of the request, and leaves every stock row, every movement record
\* and the shipment items as they were.
C14_RejectPendingChangesNoLedger ==
    [][Succeeded("reject_shipment") /\ KnownShipment
         /\ shipments[request'.id].status = PENDING =>
         /\ shipments'[request'.id].status = REJECTED
         /\ shipments'[request'.id].rejection_reason = request'.reason
         /\ stock' = stock
         /\ shipment_items' = shipment_items
         /\ transfers' = transfers
         /\ arrivals' = arrivals /\ device_arrivals' = device_arrivals
         /\ dispensing_records' = dispensing_records
         /\ dispensing_items' = dispensing_items]_vars

\* a shipment with items, rejected right after its creation
C14_RejectedFreshShipment ==
    /\ ops = MaxShipOps - 2
    /\ request.op = "reject_shipment" /\ response = 200
    /\ Len(shipments) = 1
    /\ shipments[1].status = REJECTED
    /\ shipments[1].rejection_reason = request.reason
    /\ ItemsOf(1) # <<>>
    /\ \E r \in stock : r.quantity > 0

\* C15: a transfer batch of which an entry fails changes nothing: every
\* stock row (warehouse and branch quantities, branch rows) and the transfer
\* records are as before the call, whatever the entries before the failing
\* one would have done.
C15_FailedBatchChangesNothing ==
    [][request'.op = "create_transfers" /\ response' # 200 =>
         /\ stock' = stock
         /\ transfers' = transfers
         /\ next_id' = next_id]_vars

\* a failed batch of two entries whose first entry alone would have moved
\* stock to a branch without a row, and whose second names an absent medicine
C15_FailedAfterGoodEntry ==
    /\ request.op = "create_transfers" /\ response = 400
    /\ Len(request.batch) = 2
    /\ request.batch[1].medicine_id = 1 /\ request.batch[1].quantity = 1
    /\ request.batch[1].to_branch_id = "b2"
    /\ request.batch[2].medicine_id = 2
    /\ transfers = <<>>
    /\ TransferCatalog \subseteq stock
    /\ BranchRows(stock, MEDICINE, request.batch[1].medicine_name, "b2") = {}

\* C16 as stated: a transfer entry whose medicine id has no warehouse row is
\* answered NotFound (404), one whose warehouse quantity is less than the
\* requested quantity is answered InsufficientStock (400), and one whose
\* warehouse quantity is greater than or equal to it succeeds.
C16_AbsentIsNotFound ==
    [][request'.op = "create_transfers" /\ Len(request'.batch) = 1 =>
         LET e == request'.batch[1]
             mains == MainRows(stock, MEDICINE, e.medicine_id)
         IN  /\ mains = {} => response' = 404
             /\ mains # {} /\ (\E m \in mains : m.quantity < e.quantity) =>
                  response' = 400
             /\ mains # {} /\ (\A m \in mains : m.quantity >= e.quantity) =>
                  response' = 200]_vars

\* a line of a creation request that the warehouse cannot serve: no warehouse
\* row of that kind has the id, or the row holds less than the line asks for
Unserved(kind, l) ==
    \/ MainRows(stock, kind, l.id) = {}
    \/ \E m \in MainRows(stock, kind, l.id) : m.quantity < l.quantity
SomeLineUnserved(req) ==
    \/ \E i \in DOMAIN req.medicines : Unserved(MEDICINE, req.medicines[i])
    \/ \E i \in DOMAIN req.medical_devices :
         Unserved(MEDICAL_DEVICE, req.medical_devices[i])

\* C17: a shipment creation of which a medicine or device line names an item
\* absent from the warehouse, or asks for more than the warehouse holds, is
\* answered 400 (insufficient stock) and leaves the shipments, the shipment
\* items and the notifications as they were.
C17_UnservedLineCreatesNothing ==
    [][request'.op = "create_shipment" /\ SomeLineUnserved(request') =>
         /\ response' = 400
         /\ shipments' = shipments
         /\ shipment_items' = shipment_items
         /\ notifications' = notifications]_vars

\* a refused creation whose first medicine line the warehouse can serve and
\* whose device line it cannot, beside an earlier shipment that is untouched
C17_RefusedAfterServedLine ==
    /\ request.op = "create_shipment" /\ response = 400
    /\ Len(request.medicines) >= 1
    /\ request.medicines[1].quantity = 1
    /\ ~Unserved(MEDICINE, request.medicines[1])
    /\ Len(request.medical_devices) = 1
    /\ Unserved(MEDICAL_DEVICE, request.medical_devices[1])
    /\ Len(shipments) = 1 /\ Len(shipment_items) = 1 /\ Len(notifications) = 1

\* the shipment items a creation request asks for: one per line, the
\* medicines first
RequestedItems(req, sid) ==
    [i \in 1..Len(req.medicines) |->
       [shipment_id |-> sid, item_type |-> MEDICINE,
        item_id |-> req.medicines[i].id,
        quantity |-> req.medicines[i].quantity]]
    \o [i \in 1..Len(req.medical_devices) |->
       [shipment_id |-> sid, item_type |-> MEDICAL_DEVICE,
        item_id |-> req.medical_devices[i].id,
        quantity |-> req.medical_devices[i].quantity]]

\* C18: a successful shipment creation adds exactly one shipment, pending,
\* without accepted_at and rejection_reason, to the destination of the
\* request; one shipment item per requested line with the line's item id and
\* quantity; and exactly one unread notification for the destination branch.
C18_CreatePersistsShipmentItemsNotice ==
    [][Succeeded("create_shipment") =>
         LET sid == Len(shipments) + 1
             new == SubSeq(shipment_items', Len(shipment_items) + 1,
                           Len(shipment_items'))
         IN  /\ shipments' = Append(shipments,
                    [to_branch_id |-> request'.to_branch_id, status |-> PENDING,
                     rejection_reason |-> None, accepted_at |-> Null])
             /\ SubSeq(shipment_items', 1, Len(shipment_items)) = shipment_items
             /\ [i \in DOMAIN new |->
                   [shipment_id |-> new[i].shipment_id,
                    item_type |-> new[i].item_type, item_id |-> new[i].item_id,
                    quantity |-> new[i].quantity]]
                  = RequestedItems(request', sid)
             /\ notifications' = Append(notifications,
                    [branch_id |-> request'.to_branch_id, is_read |-> 0])]_vars

\* a second shipment created from two medicine lines and a device line
C18_CreatedWithThreeLines ==
    /\ request.op = "create_shipment" /\ response = 200
    /\ Len(request.medicines) = 2 /\ Len(request.medical_devices) = 1
    /\ Len(shipments) = 2 /\ shipments[2].status = PENDING
    /\ Len(ItemsOf(2)) = 3
    /\ Len(notifications) = 2
    /\ notifications[2].branch_id = request.to_branch_id

\* the rows a branch holds under an id, and the quantity the lines of a
\* request ask of an id
RowsAt(b, id) == {r \in stock : r.branch_id = b /\ r.id = id}
AskedOf(items, id) ==
    SumOver({i \in DOMAIN items : items[i].id = id},
            [i \in DOMAIN items |-> items[i].quantity])

\* C19 as stated: after a successful dispensing request at branch B the row
\* with a line's id at B holds its quantity less the quantities of the lines
\* with that id; a request with a line whose id has no row at B, or whose row
\* at B holds, after the lines before it, less than the line asks for, is
\* refused; a request of one line that asks for exactly what the row of its
\* table holds succeeds and leaves 0.
C19_EachLineDecrementsItsRow ==
    [][request'.op = "create_dispensing_record" =>
         LET B == request'.branch_id
             items == request'.items
         IN  /\ response' = 200 =>
                  \A i \in DOMAIN items : \A r \in RowsAt(B, items[i].id) :
                    [r EXCEPT !.quantity = r.quantity - AskedOf(items, r.id)]
                      \in stock'
             /\ (\E i \in DOMAIN items :
                   \/ RowsAt(B, items[i].id) = {}
                   \/ \E r \in RowsAt(B, items[i].id) :
                        r.quantity - AskedOf(SubSeq(items, 1, i - 1), r.id)
                          < items[i].quantity) =>
                  response' = 400
             /\ ( /\ Len(items) = 1
                  /\ request'.patient_id \in Patients
                  /\ request'.employee_id \in Employees
                  /\ \E r \in RowsAt(B, items[1].id) :
                       r.kind = items[1].type /\ r.quantity = items[1].quantity ) =>
                  /\ response' = 200
                  /\ \A r \in RowsAt(B, items[1].id) :
                       [r EXCEPT !.quantity = 0] \in stock']_vars

\* C20: a dispensing request that is refused changes nothing: every stock
\* row, the dispensing records and the dispensing items are as before the
\* call, whatever the lines before the failing one would have done.
C20_RefusedDispensingChangesNothing ==
    [][request'.op = "create_dispensing_record" /\ response' # 200 =>
         /\ stock' = stock
         /\ dispensing_records' = dispensing_records
         /\ dispensing_items' = dispensing_items]_vars

\* a refused request of known people whose first line the branch can serve
\* and whose second line names an item only the warehouse holds
C20_RefusedAfterServedLine ==
    /\ request.op = "create_dispensing_record" /\ response = 400
    /\ request.patient_id \in Patients /\ request.employee_id \in Employees
    /\ request.branch_id = "b1"
    /\ Len(request.items) = 2
    /\ request.items[1].type = MEDICINE /\ request.items[1].id = 1
    /\ request.items[1].quantity = 1
    /\ \E r \in RowsAt("b1", 1) : r.quantity >= 1
    /\ request.items[2].type = MEDICINE /\ request.items[2].id = 3
    /\ dispensing_records = <<>> /\ dispensing_items = <<>>

\* C21: a successful dispensing request adds exactly one dispensing record
\* and exactly one dispensing item per line of the request, whatever the
\* line's type is, each item carrying the line's id and quantity.
C21_OneItemPerLine ==
    [][Succeeded("create_dispensing_record") =>
         LET items == request'.items
             new == SubSeq(dispensing_items', Len(dispensing_items) + 1,
                           Len(dispensing_items'))
         IN  /\ Len(dispensing_records') = Len(dispensing_records) + 1
             /\ SubSeq(dispensing_items', 1, Len(dispensing_items))
                  = dispensing_items
             /\ Len(new) = Len(items)
             /\ \A i \in DOMAIN new :
                  /\ new[i].record_id = Len(dispensing_records')
                  /\ new[i].item_id = items[i].id
                  /\ new[i].quantity = items[i].quantity]_vars

\* C22: a dispensing request whose patient or employee does not exist is
\* answered NotFound (404, not the 400 of insufficient stock) and changes
\* neither the stock nor the dispensing records.
C22_UnknownPersonIsNotFound ==
    [][request'.op = "create_dispensing_record"
         /\ (request'.patient_id \notin Patients
               \/ request'.employee_id \notin Employees) =>
         /\ response' = 404
         /\ stock' = stock
         /\ dispensing_records' = dispensing_records]_vars

\* the last arrival step: its table, its log before and after, and the
\* entries of the batch that name an id
ArrivalStep == request'.op \in {"create_arrivals", "create_device_arrivals"}
ArrivalKind == IF request'.op = "create_arrivals" THEN MEDICINE ELSE MEDICAL_DEVICE
ArrivalLog == IF request'.op = "create_arrivals" THEN arrivals ELSE device_arrivals
ArrivalLogAfter ==
    IF request'.op = "create_arrivals" THEN arrivals' ELSE device_arrivals'
EntriesOf(batch, id) == {i \in DOMAIN batch : batch[i].item_id = id}
Last(I) == CHOOSE i \in I : \A j \in I : j <= i

\* C23: after an arrival batch, entry by entry in order: a warehouse row that
\* entries of the batch name holds its quantity plus the quantities of those
\* entries, has the purchase price of the last of them, and the sell price of
\* the last of them that supplies one (its own when none does); and the log
\* has one more record per entry, with the entry's id, name, quantity and
\* prices.
C23_ArrivalUpdatesWarehouseRow ==
    [][ArrivalStep =>
         LET batch == request'.batch
         IN  /\ response' = 200
             /\ \A m \in stock :
                  LET I == EntriesOf(batch, m.id)
                      S == {i \in I : batch[i].sell_price # Null}
                  IN  (m.kind = ArrivalKind /\ m.branch_id = None /\ I # {}) =>
                        [m EXCEPT
                           !.quantity = m.quantity
                              + SumOver(I, [i \in DOMAIN batch |-> batch[i].quantity]),
                           !.purchase_price = batch[Last(I)].purchase_price,
                           !.sell_price = IF S = {} THEN m.sell_price
                                          ELSE Get(batch[Last(S)].sell_price)]
                          \in stock'
             /\ ArrivalLogAfter = ArrivalLog \o
                  [i \in DOMAIN batch |->
                     [item_id |-> batch[i].item_id,
                      item_name |-> batch[i].item_name,
                      quantity |-> batch[i].quantity,
                      purchase_price |-> batch[i].purchase_price,
                      sell_price |-> IF batch[i].sell_price # Null
                                     THEN Get(batch[i].sell_price) ELSE 0]]]_vars

\* a batch of two entries for warehouse medicine 1: the first supplies a sell
\* price, the second does not and has another purchase price
C23_TwoEntriesOneSupplyingSellPrice ==
    /\ request.op = "create_arrivals" /\ response = 200
    /\ Len(request.batch) = 2
    /\ request.batch[1].item_id = 1 /\ request.batch[2].item_id = 1
    /\ request.batch[1].quantity = 1 /\ request.batch[2].quantity = 1
    /\ request.batch[1].sell_price = Some(2) /\ request.batch[2].sell_price = Null
    /\ request.batch[1].purchase_price = 1 /\ request.batch[2].purchase_price = 2
    /\ StockRow(1, MEDICINE, "A", "c1", 2, 2, MaxQty + 2, None) \in stock
    /\ Len(arrivals) = 2

\* C24: an arrival entry whose id names no warehouse row of the table (a row
\* only a branch holds, or no row) still gets its record and the batch
\* succeeds; no stock row is created and every row no entry names as a
\* warehouse row is as it was.
C24_UnmatchedArrivalOnlyLogs ==
    [][ArrivalStep =>
         LET batch == request'.batch
             named(r) == /\ r.kind = ArrivalKind /\ r.branch_id = None
                         /\ EntriesOf(batch, r.id) # {}
         IN  /\ response' = 200
             /\ Len(ArrivalLogAfter) = Len(ArrivalLog) + Len(batch)
             /\ {r.id : r \in stock'} = {r.id : r \in stock}
             /\ \A r \in stock : ~named(r) => r \in stock'
             /\ (\A r \in stock : ~named(r)) => stock' = stock]_vars

\* a device batch whose only entry names the device of branch b1: recorded,
\* and the whole stock is as at the start
C24_BranchRowArrivalLogged ==
    /\ request.op = "create_device_arrivals" /\ response = 200
    /\ Len(request.batch) = 1
    /\ request.batch[1].item_id = 4 /\ request.batch[1].quantity = 1
    /\ request.batch[1].purchase_price = 2
    /\ request.batch[1].sell_price = Some(2)
    /\ Len(device_arrivals) = 1
    /\ stock = ArrivalCatalog

\* a client whose request was answered; the row and the quantity a request
\* takes; the quantity of a row as a session read it
Done(c) == sessions[c].pc = "done"
Takes(req) ==
    req.op \in {"create_transfers", "accept_shipment", "create_dispensing_record"}
TakenRow(req) ==
    IF req.op = "create_transfers" THEN req.batch[1].medicine_id
    ELSE IF req.op = "accept_shipment" THEN ItemsOf(req.id)[1].item_id
    ELSE req.items[1].id
TakenQty(req) ==
    IF req.op = "create_transfers" THEN req.batch[1].quantity
    ELSE IF req.op = "accept_shipment" THEN ItemsOf(req.id)[1].quantity
    ELSE req.items[1].quantity
SeenQty(c, id) ==
    (CHOOSE r \in sessions[c].snap.stock : r.id = id).quantity
LogQty(log) == SumOver(DOMAIN log, [i \in DOMAIN log |-> log[i].quantity])

\* C25: with two requests in progress at the same time on the same stock
\* row, no committed quantity is negative, and two requests that each read
\* the row's quantity n and each take n are not both committed.
C25_NoOverdrawUnderInterleaving ==
    /\ \A r \in stock : r.quantity >= 0
    /\ \A c, d \in Clients :
         ( /\ c # d /\ Done(c) /\ Done(d)
           /\ Takes(sessions[c].req) /\ Takes(sessions[d].req)
           /\ TakenRow(sessions[c].req) = TakenRow(sessions[d].req)
           /\ SeenQty(c, TakenRow(sessions[c].req)) = TakenQty(sessions[c].req)
           /\ SeenQty(d, TakenRow(sessions[d].req)) = TakenQty(sessions[d].req)
           /\ TakenQty(sessions[c].req) = TakenQty(sessions[d].req) ) =>
         ~(sessions[c].response = 200 /\ sessions[d].response = 200)

\* C26: of two accept calls in progress at the same time on the same pending
\* shipment, one commits the shipment's stock moves, once, and the other is
\* answered 409.
C26_OneOfTwoAcceptsWins ==
    /\ \A sid \in DOMAIN shipments : effects[sid] <= 1 + resets[sid]
    /\ \A c, d \in Clients :
         ( /\ c # d /\ Done(c) /\ Done(d)
           /\ sessions[c].req.op = "accept_shipment"
           /\ sessions[d].req = sessions[c].req ) =>
         {sessions[c].response, sessions[d].response} = {200, 409}

\* C27: once the requests of both clients are answered, the warehouse row
\* and the branch row hold their initial quantity plus the quantities of
\* every committed arrival, transfer, acceptance and dispensing on them.
C27_NoLostUpdate ==
    (\A c \in Clients : sessions[c].pc # "open") =>
      /\ WarehouseQty(stock, MEDICINE, 1)
           = RaceQty + LogQty(arrivals) - LogQty(transfers)
             - effects[1] * ItemsOf(1)[1].quantity
      /\ BranchQty(stock, MEDICINE, "A", "b1")
           = RaceQty + LogQty(transfers) + effects[1] * ItemsOf(1)[1].quantity
             - LogQty(dispensing_items)

\* the records a step adds to a log, and the quantity of those that satisfy P
Added(log, logAfter) == SubSeq(logAfter, Len(log) + 1, Len(logAfter))
QtyWhere(new, P(_)) ==
    SumOver({i \in DOMAIN new : P(new[i])},
            [i \in DOMAIN new |-> new[i].quantity])
QtyOf(tbl, id) == (CHOOSE r \in tbl : r.id = id).quantity
Ids(tbl) == {r.id : r \in tbl}

\* every log keeps the records it has
LogsOnlyGrow ==
    /\ SubSeq(transfers', 1, Len(transfers)) = transfers
    /\ SubSeq(arrivals', 1, Len(arrivals)) = arrivals
    /\ SubSeq(device_arrivals', 1, Len(device_arrivals)) = device_arrivals
    /\ SubSeq(dispensing_items', 1, Len(dispensing_items)) = dispensing_items

\* the quantity the records added by the step bring to the row r, and the
\* quantity they take from it
RecordedIn(r) ==
    IF r.branch_id = None
    THEN IF r.kind = MEDICINE
         THEN QtyWhere(Added(arrivals, arrivals'), LAMBDA a : a.item_id = r.id)
         ELSE QtyWhere(Added(device_arrivals, device_arrivals'),
                       LAMBDA a : a.item_id = r.id)
    ELSE IF r.kind = MEDICINE
         THEN QtyWhere(Added(transfers, transfers'),
                       LAMBDA t : t.medicine_name = r.name
                                    /\ t.to_branch_id = r.branch_id)
         ELSE 0
RecordedOut(r) ==
    IF r.branch_id = None
    THEN IF r.kind = MEDICINE
         THEN QtyWhere(Added(transfers, transfers'),
                       LAMBDA t : t.medicine_id = r.id)
         ELSE 0
    ELSE QtyWhere(Added(dispensing_items, dispensing_items'),
                  LAMBDA d : /\ d.item_id = r.id /\ d.item_type = r.kind
                             /\ dispensing_records'[d.record_id].branch_id
                                  = r.branch_id)

\* every stock row changes by what the records added in the same step say,
\* and a row the step creates holds what they bring to it
StockFollowsRecords ==
    /\ Ids(stock) \subseteq Ids(stock')
    /\ \A r \in stock :
         QtyOf(stock', r.id) = r.quantity + RecordedIn(r) - RecordedOut(r)
    /\ \A r \in stock' : r.id \notin Ids(stock) => r.quantity = RecordedIn(r)

\* every transfer record and every dispensing item added by the step names a
\* row that the step changed by it
TakingRecordsHaveRows ==
    /\ \A i \in DOMAIN Added(transfers, transfers') :
         MainRows(stock, MEDICINE, Added(transfers, transfers')[i].medicine_id) # {}
    /\ \A i \in DOMAIN Added(dispensing_items, dispensing_items') :
         LET d == Added(dispensing_items, dispensing_items')[i]
         IN  \E r \in stock :
               /\ r.id = d.item_id /\ r.kind = d.item_type
               /\ r.branch_id = dispensing_records'[d.record_id].branch_id
ArrivalRecordsHaveRows ==
    /\ \A i \in DOMAIN Added(arrivals, arrivals') :
         MainRows(stock, MEDICINE, Added(arrivals, arrivals')[i].item_id) # {}
    /\ \A i \in DOMAIN Added(device_arrivals, device_arrivals') :
         MainRows(stock, MEDICAL_DEVICE,
                  Added(device_arrivals, device_arrivals')[i].item_id) # {}

Moves ==
    IF request'.op = "create_transfers"
    THEN [i \in DOMAIN request'.batch |->
            [to |-> request'.batch[i].to_branch_id, kind |-> MEDICINE,
             name |-> request'.batch[i].medicine_name,
             id |-> request'.batch[i].medicine_id,
             quantity |-> request'.batch[i].quantity]]
    ELSE [i \in DOMAIN ItemsOf(request'.id) |->
            [to |-> shipments[request'.id].to_branch_id,
             kind |-> ItemsOf(request'.id)[i].item_type,
             name |-> ItemsOf(request'.id)[i].item_name,
             id |-> ItemsOf(request'.id)[i].item_id,
             quantity |-> ItemsOf(request'.id)[i].quantity]]

\* C30: a successful transfer or acceptance changes nothing but the
\* quantity of a branch row it finds, whatever the warehouse row's category
\* and prices are; where the destination has no row of the name it creates
\* one, with the moved quantity and the category and prices the warehouse
\* row has at that moment.
C30_BranchCopyFoundOrCreated ==
    [][Succeeded("create_transfers") \/ Succeeded("accept_shipment") =>
         /\ \A r \in stock : r.branch_id # None =>
              \E n \in stock' : [n EXCEPT !.quantity = r.quantity] = r
         /\ \A i \in DOMAIN Moves :
              LET mv == Moves[i]
                  w == CHOOSE m \in MainRows(stock, mv.kind, mv.id) : TRUE
                  old == BranchRows(stock, mv.kind, mv.name, mv.to)
                  new == BranchRows(stock', mv.kind, mv.name, mv.to)
              IN  /\ Cardinality(new) = 1
                  /\ old # {} => \A n \in new :
                       [n EXCEPT !.quantity = 0]
                         \in {[o EXCEPT !.quantity = 0] : o \in old}
                  /\ old = {} => \A n \in new :
                       /\ n.id \notin Ids(stock)
                       /\ n.category_id = w.category_id
                       /\ n.purchase_price = w.purchase_price
                       /\ n.sell_price = w.sell_price
                       /\ n.quantity = QtyWhere(Moves,
                            LAMBDA x : x.kind = mv.kind /\ x.name = mv.name
                                         /\ x.to = mv.to)]_vars

\* shipment 1 accepted at a branch that had the medicine's copy under an old
\* category and price and had no copy of the device
C30_OneCopyFoundOneCreated ==
    /\ request.op = "accept_shipment" /\ request.id = 1 /\ response = 200
    /\ StockRow(4, MEDICINE, "A", "c8", 1, 1, 1, "b1") \in stock
    /\ \E r \in stock : /\ r.id >= 6 /\ r.kind = MEDICAL_DEVICE /\ r.name = "B"
                        /\ r.branch_id = "b1" /\ r.category_id = "c2"
                        /\ r.purchase_price = 2 /\ r.quantity = 1

\* the lines of a batch that name a warehouse medicine by its id and its name
NamesItsMedicine(e) ==
    \E m \in MainRows(stock, MEDICINE, e.medicine_id) : m.name = e.medicine_name

\* C31: the branch's row is matched by name, not by id: after a successful
\* transfer batch that moves two distinct warehouse medicines sharing a name
\* to the same branch, the branch holds one row under that name, and its
\* quantity is what it held before plus the quantities of the batch's lines
\* with that name and destination.
C31_SharedNameSharesBranchRow ==
    [][Succeeded("create_transfers") =>
        \A i, j \in DOMAIN request'.batch :
          LET a == request'.batch[i]
              b == request'.batch[j]
              rows == {r \in stock : r.kind = MEDICINE /\ r.name = a.medicine_name
                                      /\ r.branch_id = a.to_branch_id}
              rowsAfter == {r \in stock' : r.kind = MEDICINE
                                            /\ r.name = a.medicine_name
                                            /\ r.branch_id = a.to_branch_id}
          IN  (/\ a.medicine_id # b.medicine_id
               /\ a.medicine_name = b.medicine_name
               /\ a.to_branch_id = b.to_branch_id
               /\ NamesItsMedicine(a) /\ NamesItsMedicine(b)) =>
                /\ Cardinality(rowsAfter) = 1
                /\ SumOver(rowsAfter, [r \in stock' |-> r.quantity])
                     = SumOver(rows, [r \in stock |-> r.quantity])
                       + BatchIn(request'.batch, a.medicine_name, a.to_branch_id)]_vars

\* a committed batch that moved one unit of each of the two medicines named
\* "A" (ids 1 and 3, different prices) to branch b1, which held no "A" before:
\* transfer record 1 is of medicine 1, record 2 of medicine 3, and b1 holds
\* the row created for the first line, with both units
C31_TwoMedicinesOneBranchRow ==
    /\ request.op = "create_transfers" /\ response = 200
    /\ Len(request.batch) = 2
    /\ request.batch[1].medicine_id = 1 /\ request.batch[2].medicine_id = 3
    /\ \A i \in 1..2 : /\ request.batch[i].medicine_name = "A"
                       /\ request.batch[i].to_branch_id = "b1"
                       /\ request.batch[i].quantity = 1
    /\ BranchRows(stock, MEDICINE, "A", "b1")
         = {StockRow(5, MEDICINE, "A", "c1", 1, 1, 2, "b1")}

\* the elements of a sequence
Range(f) == {f[i] : i \in DOMAIN f}

\* the quantity the items of a shipment bring under a name
ShippedUnder(sid, kind, name) ==
    SumOver({i \in DOMAIN shipment_items :
               /\ shipment_items[i].shipment_id = sid
               /\ shipment_items[i].item_type = kind
               /\ shipment_items[i].item_name = name},
            [i \in DOMAIN shipment_items |-> shipment_items[i].quantity])

\* C32: a successful accept brings each item's quantity to the destination
\* branch's row named as the item's name snapshot (found or created), whatever
\* the warehouse row is called by then, and changes the branch's rows under no
\* other name; accept, reject and the status override leave every shipment
\* item (its id, name snapshot and quantity) as it was created.
C32_AcceptFollowsNameSnapshot ==
    [][/\ (Succeeded("accept_shipment") =>
            LET to == shipments[request'.id].to_branch_id
            IN  \A kind \in {MEDICINE, MEDICAL_DEVICE}, n \in Names :
                  /\ BranchQty(stock', kind, n, to)
                       = BranchQty(stock, kind, n, to)
                         + ShippedUnder(request'.id, kind, n)
                  /\ (\E it \in Range(ItemsOf(request'.id)) :
                         it.item_type = kind /\ it.item_name = n)
                       => BranchRows(stock', kind, n, to) # {}
                  /\ (\A it \in Range(ItemsOf(request'.id)) :
                         ~(it.item_type = kind /\ it.item_name = n))
                       => BranchRows(stock', kind, n, to)
                            = BranchRows(stock, kind, n, to))
       /\ (request'.op \in {"accept_shipment", "reject_shipment",
                            "update_shipment_status"}
             => shipment_items' = shipment_items)]_vars

\* medicine 1 was shipped as "A", renamed to "B" in the warehouse, and the
\* shipment accepted: the unit is in b1's row named "A", created by the
\* accept, b1 holds no row named "B", and the item still reads "A"
C32_AcceptedAfterRename ==
    /\ request.op = "accept_shipment" /\ response = 200
    /\ \E m \in MainRows(stock, MEDICINE, 1) : m.name = "B"
    /\ shipment_items = <<[shipment_id |-> 1, item_type |-> MEDICINE,
                           item_id |-> 1, item_name |-> "A", quantity |-> 1]>>
    /\ BranchRows(stock, MEDICINE, "A", "b1")
         = {StockRow(5, MEDICINE, "A", "c1", 1, 1, 1, "b1")}
    /\ BranchRows(stock, MEDICINE, "B", "b1") = {}

\* the quantity the lines of a request ask of an item
LinesSum(lines, id) ==
    SumOver({i \in DOMAIN lines : lines[i].id = id},
            [i \in DOMAIN lines |-> lines[i].quantity])

\* C33: a shipment is created only if, for each item, the quantities of all
\* of the request's lines for that item sum to no more than the warehouse
\* holds of it at that time.
C33_CreatedWithinWarehouseTotal ==
    [][Succeeded("create_shipment") =>
        /\ \A i \in DOMAIN request'.medicines :
             LinesSum(request'.medicines, request'.medicines[i].id)
               <= WarehouseQty(stock, MEDICINE, request'.medicines[i].id)
        /\ \A i \in DOMAIN request'.medical_devices :
             LinesSum(request'.medical_devices, request'.medical_devices[i].id)
               <= WarehouseQty(stock, MEDICAL_DEVICE,
                               request'.medical_devices[i].id)]_vars

\* every line of a transfer batch finds its warehouse medicine holding, after
\* the lines before it, at least what it asks for
TransferFits(batch) ==
    \A i \in DOMAIN batch :
      /\ MainRows(stock, MEDICINE, batch[i].medicine_id) # {}
      /\ batch[i].quantity
           <= WarehouseQty(stock, MEDICINE, batch[i].medicine_id)
              - BatchOut(SubSeq(batch, 1, i - 1), batch[i].medicine_id)

\* the quantity the lines of a dispensing request take from a row of a table
DispensedOf(items, type, id) ==
    SumOver({i \in DOMAIN items : items[i].type = type /\ items[i].id = id},
            [i \in DOMAIN items |-> items[i].quantity])

\* every line of a dispensing request for one of the two tables finds its row
\* at the branch holding, after the lines before it, at least what it asks for
DispensingFits(branch, items) ==
    \A i \in DOMAIN items :
      items[i].type \in {MEDICINE, MEDICAL_DEVICE} =>
        LET rows == {r \in stock : r.kind = items[i].type /\ r.id = items[i].id
                                    /\ r.branch_id = branch}
        IN  /\ rows # {}
            /\ \A r \in rows :
                 items[i].quantity
                   <= r.quantity - DispensedOf(SubSeq(items, 1, i - 1),
                                               items[i].type, items[i].id)

\* C34: the lines of a transfer batch and of a dispensing request are applied
\* in request order, each validated against the quantity the earlier lines of
\* the same request left: the request succeeds exactly when every line fits
\* what is left for it, and otherwise it fails as a whole and changes nothing
\* (so two lines for one row that each fit but together exceed it are
\* refused).
C34_LinesValidatedInOrder ==
    [][/\ request'.op = "create_transfers" =>
            /\ response' = 200 <=> TransferFits(request'.batch)
            /\ response' # 200 =>
                 /\ stock' = stock /\ next_id' = next_id
                 /\ transfers' = transfers
       /\ request'.op = "create_dispensing_record" =>
            /\ response' = 200
                 <=> DispensingFits(request'.branch_id, request'.items)
            /\ response' # 200 =>
                 /\ stock' = stock
                 /\ dispensing_records' = dispensing_records
                 /\ dispensing_items' = dispensing_items]_vars

\* a refused dispensing request of two lines for row 3 of branch b1, each
\* asking for no more than the row holds and both together for more; it is
\* the second request of the history and neither request has recorded
\* anything
C34_TwoFittingLinesRefused ==
    /\ request.op = "create_dispensing_record" /\ response = 400
    /\ Len(request.items) = 2
    /\ \A i \in 1..2 : /\ request.items[i].type = MEDICINE
                       /\ request.items[i].id = 3
                       /\ request.items[i].quantity > 0
                       /\ \E r \in RowsAt("b1", 3) :
                            request.items[i].quantity <= r.quantity
    /\ \E r \in RowsAt("b1", 3) :
         request.items[1].quantity + request.items[2].quantity > r.quantity
    /\ ops = 0 /\ transfers = <<>> /\ arrivals = <<>> /\ device_arrivals = <<>>
    /\ dispensing_records = <<>>

\* C35: the status override of a known shipment writes the request's status
\* into that shipment's status field and changes nothing else: every stock
\* row, every movement record, the shipment items, the notifications, and the
\* accepted_at and rejection_reason of every shipment stay as they were,
\* whatever the old and the new status; for an unknown shipment id the
\* response is 404 and nothing changes.
C35_OverrideWritesStatusOnly ==
    [][request'.op = "update_shipment_status" =>
        /\ stock' = stock /\ next_id' = next_id
        /\ shipment_items' = shipment_items
        /\ notifications' = notifications
        /\ transfers' = transfers
        /\ arrivals' = arrivals /\ device_arrivals' = device_arrivals
        /\ dispensing_records' = dispensing_records
        /\ dispensing_items' = dispensing_items
        /\ IF KnownShipment
           THEN /\ response' = 200
                /\ shipments' = [shipments EXCEPT
                                   ![request'.id].status = request'.status]
           ELSE /\ response' = 404
                /\ shipments' = shipments]_vars

\* an accepted shipment overridden to a status that is none of the three: it
\* keeps its accepted_at, and branch b1 keeps the unit the accept brought
C35_AcceptedOverriddenToLost ==
    /\ request.op = "update_shipment_status" /\ response = 200
    /\ request.id = 1 /\ request.status = "lost"
    /\ shipments[1].status = "lost"
    /\ shipments[1].accepted_at # Null
    /\ BranchQty(stock, MEDICINE, "A", "b1") = 1
    /\ WarehouseQty(stock, MEDICINE, 1) = MaxQty

\* C36: from a state in which no branch holds two rows of one kind under one
\* name, no sequence of transfer batches and shipment acceptances leads to a
\* state in which a branch does.
C36_BranchNamesStayUnique ==
    \A r1, r2 \in stock :
      (/\ r1.branch_id # None
       /\ r1.branch_id = r2.branch_id
       /\ r1.kind = r2.kind
       /\ r1.name = r2.name) => r1 = r2

\* a transfer batch brought both medicines named "A" to b2, which held none,
\* and then shipment 1 brought both to b1, which held none: each branch holds
\* one medicine row named "A", created by the first of its two lines, and b1
\* one device row named "A"
C36_TwoLinesOneNewRow ==
    /\ request.op = "accept_shipment" /\ request.id = 1 /\ response = 200
    /\ Len(transfers) = 2
    /\ transfers[1].medicine_id # transfers[2].medicine_id
    /\ \E r \in stock :
         /\ BranchRows(stock, MEDICINE, "A", "b2") = {r}
         /\ r.id = 5 /\ r.quantity = 2
    /\ \E r \in stock :
         /\ BranchRows(stock, MEDICINE, "A", "b1") = {r}
         /\ r.id = 6 /\ r.quantity = 2
    /\ \E r \in stock :
         /\ BranchRows(stock, MEDICAL_DEVICE, "A", "b1") = {r}
         /\ r.id = 7 /\ r.quantity = 1

\* the quantity a row held before the request; 0 for a row the request added
QtyBefore(r) == IF r.id \in Ids(stock) THEN QtyOf(stock, r.id) ELSE 0

\* C37: whatever quantities the lines carry, a committed transfer batch or
\* shipment acceptance raises no warehouse quantity and lowers no branch
\* quantity, a committed dispensing request raises no quantity, and a
\* committed arrival batch lowers no quantity.
C37_StockFlowsOneWay ==
    [][/\ (Succeeded("create_transfers") \/ Succeeded("accept_shipment")) =>
            \A r \in stock' :
              IF r.branch_id = None THEN r.quantity <= QtyBefore(r)
              ELSE r.quantity >= QtyBefore(r)
       /\ Succeeded("create_dispensing_record") =>
            \A r \in stock' : r.quantity <= QtyBefore(r)
       /\ (Succeeded("create_arrivals") \/ Succeeded("create_device_arrivals")) =>
            \A r \in stock' : r.quantity >= QtyBefore(r)]_vars

\* C38: a dispensing request at a branch leaves every row of the warehouse
\* and of every other branch as it was, also a row that has the name or the
\* id of one of the request's lines; it adds and removes no row, and of a row
\* of the branch it changes the quantity only.
C38_DispensingStaysAtItsBranch ==
    [][request'.op = "create_dispensing_record" =>
        /\ \A r \in stock : r.branch_id # request'.branch_id => r \in stock'
        /\ Ids(stock') = Ids(stock)
        /\ \A r \in stock' :
             \E o \in stock : [o EXCEPT !.quantity = r.quantity] = r]_vars

\* a committed request at b2 that took one unit of its medicine 4 (named "A"):
\* b2's row holds one less, while the rows named "A" of b1 and of the
\* warehouse hold what they held
C38_DispensedAtOneOfThreeHolders ==
    /\ request.op = "create_dispensing_record" /\ response = 200
    /\ request.branch_id = "b2"
    /\ \E i \in DOMAIN request.items :
         request.items[i].id = 4 /\ request.items[i].quantity = 1
    /\ QtyOf(stock, 4) = MaxQty - 1
    /\ QtyOf(stock, 3) = MaxQty
    /\ QtyOf(stock, 1) = MaxQty
    /\ dispensing_items # <<>>

\* the sum of the quantities of the records of a log for an item
LoggedFor(log, id) ==
    SumOver({i \in DOMAIN log : log[i].item_id = id},
            [i \in DOMAIN log |-> log[i].quantity])

\* the sum of the quantities of the transfer records of a medicine
TransferredOf(id) ==
    SumOver({i \in DOMAIN transfers : transfers[i].medicine_id = id},
            [i \in DOMAIN transfers |-> transfers[i].quantity])

\* the sum of the quantities of the items for a warehouse row in the
\* shipments whose status is accepted
AcceptedOf(kind, id) ==
    SumOver({i \in DOMAIN shipment_items :
               /\ shipment_items[i].item_type = kind
               /\ shipment_items[i].item_id = id
               /\ shipments[shipment_items[i].shipment_id].status = ACCEPTED},
            [i \in DOMAIN shipment_items |-> shipment_items[i].quantity])

\* C39: in every reachable state each warehouse row holds its initial
\* quantity plus the quantities of its arrival records, minus the quantities
\* of its transfer records, minus the quantities of its items in the
\* shipments whose status is accepted.
C39_WarehouseReconstructible ==
    \A r \in stock :
      r.branch_id = None =>
        r.quantity
          = QtyOf(Catalog, r.id)
            + (IF r.kind = MEDICINE THEN LoggedFor(arrivals, r.id)
               ELSE LoggedFor(device_arrivals, r.id))
            - (IF r.kind = MEDICINE THEN TransferredOf(r.id) ELSE 0)
            - AcceptedOf(r.kind, r.id)

====
